---- MODULE Spec2Model ----
(***************************************************************************)
(* A model of the MP4 demuxer of src/src/mp4_demux.c.                      *)
(*                                                                         *)
(* Three specifications share the variables:                               *)
(*   SpecBuild  the sample-index builder mp4_demux_build_tracks, applied   *)
(*              to the tables the stbl parsers stored (any uint32 values   *)
(*              a file can carry);                                         *)
(*   Spec       the query surface (seek, next_sample, media_info,          *)
(*              track_info) on a successfully opened movie;                *)
(*   SpecBox    the recursive box walk mp4_demux_parse_children, the       *)
(*              allocations made on the way and the cleanup of             *)
(*              mp4_demux_close.                                           *)
(*                                                                         *)
(* uint32_t arithmetic wraps; the model keeps the wrap and scales the      *)
(* modulus 2^32 down to U32.  Sequences are 1-based: the C element a[i]    *)
(* is the TLA+ element a[i + 1].                                           *)
(***************************************************************************)
EXTENDS Integers, Sequences, FiniteSets, TLC

VARIABLES
    pc,        \* where the demux is: "parsed", "opened", "failed", "crashed", "closed"
    fileSize,  \* demux->fileSize
    tracks,    \* the track list demux->track, in list order
    err,       \* the error mp4_demux_build_tracks / mp4_demux_open reported
    ub,        \* the undefined behaviours the last operation executed (a set of names)
    chapSz,    \* the u16 the file holds at the start of every chapter sample
    chapters,  \* demux->chaptersTime / chaptersName, as records of the time and the
               \* name length, with the track and the sample they were read from
    last,      \* the last query call: its arguments, the cursors before it, its results
    box,       \* the file, and what the box walk of open made of it (SpecBox)
    mvhd       \* what the mvhd box left in the demux: timescale, duration and the two times

vars == <<pc, fileSize, chapSz, tracks, err, ub, chapters, last, box, mvhd>>

-----------------------------------------------------------------------------
(* Bounds of the model *)

\* the modulus of uint32_t arithmetic (2^32 in the program)
U32 == 64
\* the largest stsz sample_count of a generated track
MaxSamples == 3
\* the largest stco entry_count of a generated track
MaxChunks == 3
\* the largest samples_per_chunk of a generated stsc entry
MaxPerChunk == 2
\* the largest sample size of a generated stsz table
MaxSampleSize == 2
\* the chunk offsets of a generated stco table: ChunkBase + c * ChunkStride
ChunkBase == 8
ChunkStride == 4
\* the sizes of the generated files
SmallFile == 13
LargeFile == 64
\* samples of the track that is sought in
SeekSamples == 5
\* the larger of the two buffer sizes a caller passes
BigBuffer == 4

-----------------------------------------------------------------------------
(* Helpers *)

Max(a, b) == IF a >= b THEN a ELSE b
Min(a, b) == IF a <= b THEN a ELSE b

RECURSIVE SumSeq(_)
SumSeq(s) == IF s = <<>> THEN 0 ELSE Head(s) + SumSeq(Tail(s))

\* the C element a[i] of an array held as a sequence
At(a, i) == a[i + 1]

\* uint64_t and off_t have 64 bits: the modulus 2^64 scales to U32 * U32
S64 == U32 * U32

-----------------------------------------------------------------------------
(* struct mp4_track *)

NoTrack == 0

\* a track as memset(0) by the trak case of mp4_demux_parse_children
EmptyTrack ==
    [ id |-> 0, type |-> "UNKNOWN", timescale |-> 0, duration |-> 0,
      creationTime |-> 0, modificationTime |-> 0,
      currentSample |-> 0, sampleCount |-> 0,
      sampleSize |-> <<>>, sampleDecodingTime |-> <<>>, sampleOffset |-> <<>>,
      chunkCount |-> 0, chunkOffset |-> <<>>,
      timeToSampleEntries |-> <<>>, sampleToChunkEntries |-> <<>>,
      hasSyncSampleEntries |-> FALSE, syncSampleEntries |-> <<>>,
      referenceType |-> "none", referenceTrackId |-> 0,
      ref |-> NoTrack, metadata |-> NoTrack, chapters |-> NoTrack ]

-----------------------------------------------------------------------------
(* mp4_demux_build_tracks: the stsc expansion *)

\* lines 2554-2561: one step of the counting loop over the stsc entries
RECURSIVE StscCountLoop(_, _, _, _, _)
StscCountLoop(stsc, i, lastFirstChunk, lastSamplesPerChunk, sampleCount) ==
    IF i > Len(stsc)
    THEN [ lastFirstChunk |-> lastFirstChunk,
           lastSamplesPerChunk |-> lastSamplesPerChunk,
           sampleCount |-> sampleCount ]
    ELSE LET chunkCount == (stsc[i].firstChunk - lastFirstChunk) % U32
         IN  StscCountLoop(stsc, i + 1, stsc[i].firstChunk, stsc[i].samplesPerChunk,
                           (sampleCount + chunkCount * lastSamplesPerChunk) % U32)

\* lines 2551-2563: the sample count the stsc table and chunkCount give, in uint32
StscSampleCount(tk) ==
    LET r == StscCountLoop(tk.sampleToChunkEntries, 1, 1, 0, 0)
        chunkCount == (tk.chunkCount - r.lastFirstChunk + 1) % U32
    IN  (r.sampleCount + chunkCount * r.lastSamplesPerChunk) % U32

\* lines 2576-2594: the runs the expansion walks: per stsc entry the chunks
\* before its first_chunk with the previous entry's samples_per_chunk, then
\* the chunks up to chunkCount with the last entry's
RECURSIVE StscRuns(_, _, _, _, _)
StscRuns(tk, i, lastFirstChunk, lastSamplesPerChunk, acc) ==
    LET stsc == tk.sampleToChunkEntries IN
    IF i > Len(stsc)
    THEN Append(acc, [ chunkCount |-> (tk.chunkCount - lastFirstChunk + 1) % U32,
                       samplesPerChunk |-> lastSamplesPerChunk ])
    ELSE StscRuns(tk, i + 1, stsc[i].firstChunk, stsc[i].samplesPerChunk,
                  Append(acc, [ chunkCount |-> (stsc[i].firstChunk - lastFirstChunk) % U32,
                                samplesPerChunk |-> lastSamplesPerChunk ]))

\* lines 2581-2587 and 2596-2602: the samples of one chunk.  x is the state of
\* the expansion: n, chunkIdx, the sampleOffset array written so far, and oob,
\* set by the first access outside chunkOffset, sampleOffset or sampleSize,
\* where the expansion of the model stops
RECURSIVE ExpandSamples(_, _, _, _, _)
ExpandSamples(tk, x, k, samplesPerChunk, offsetInChunk) ==
    IF x.oob \/ k >= samplesPerChunk THEN x
    ELSE IF x.chunkIdx >= tk.chunkCount \/ x.n >= tk.sampleCount
         THEN [x EXCEPT !.oob = TRUE]
         ELSE ExpandSamples(tk,
                  [x EXCEPT !.sampleOffset[x.n + 1] =
                                At(tk.chunkOffset, x.chunkIdx) + offsetInChunk,
                            !.n = (x.n + 1) % U32],
                  k + 1, samplesPerChunk, offsetInChunk + At(tk.sampleSize, x.n))

\* lines 2580-2588 and 2595-2603: the chunks of one run
RECURSIVE ExpandChunks(_, _, _, _)
ExpandChunks(tk, x, j, run) ==
    IF x.oob \/ j >= run.chunkCount THEN x
    ELSE LET y == ExpandSamples(tk, x, 0, run.samplesPerChunk, 0)
         IN  ExpandChunks(tk, [y EXCEPT !.chunkIdx = (y.chunkIdx + 1) % U32], j + 1, run)

RECURSIVE ExpandRuns(_, _, _, _)
ExpandRuns(tk, x, r, runs) ==
    IF x.oob \/ r > Len(runs) THEN x
    ELSE ExpandRuns(tk, ExpandChunks(tk, x, 0, runs[r]), r + 1, runs)

\* a plausible slip: the chunk cursor starts at the second chunk
ExpandStscFromSecondChunk(tk, garbage) ==
    ExpandRuns(tk,
               [ n |-> 0, chunkIdx |-> 1, oob |-> FALSE,
                 sampleOffset |-> [i \in 1..tk.sampleCount |-> garbage] ],
               1, StscRuns(tk, 1, 1, 0, <<>>))

\* lines 2571-2603: the expansion of one track; garbage is what an element of
\* the malloc'ed sampleOffset array holds when the expansion went out of bounds
\* before writing it
ExpandStsc(tk, garbage) ==
    ExpandRuns(tk,
               [ n |-> 0, chunkIdx |-> 0, oob |-> FALSE,
                 sampleOffset |-> [i \in 1..tk.sampleCount |-> garbage] ],
               1, StscRuns(tk, 1, 1, 0, <<>>))

-----------------------------------------------------------------------------
(* mp4_demux_build_tracks: the decoding times *)

\* lines 2605-2607: the sum of the stts run lengths, in uint32
RECURSIVE SttsSampleCount(_)
SttsSampleCount(stts) ==
    IF stts = <<>> THEN 0
    ELSE (Head(stts).sampleCount + SttsSampleCount(Tail(stts))) % U32

\* lines 2619-2626: the decoding times, one per sample of every run; oob when
\* a run writes past the sampleCount elements allocated
RECURSIVE FillDecodingTime(_, _, _, _, _, _)
FillDecodingTime(tk, i, j, k, ts, acc) ==
    LET stts == tk.timeToSampleEntries IN
    IF i > Len(stts) THEN [ oob |-> FALSE, sampleDecodingTime |-> acc ]
    ELSE IF j >= stts[i].sampleCount
         THEN FillDecodingTime(tk, i + 1, 0, k, ts, acc)
         ELSE IF k >= tk.sampleCount
              THEN [ oob |-> TRUE, sampleDecodingTime |-> acc ]
              ELSE FillDecodingTime(tk, i, j + 1, k + 1, ts + stts[i].sampleDelta,
                                    Append(acc, ts))

-----------------------------------------------------------------------------
(* mp4_demux_build_tracks: one track, the links, the chapters *)

\* a conversion of ticks to microseconds that rounds down
TicksToUsTruncating(ticks, timescale) == (ticks * 1000000) \div timescale

\* the conversion of ticks to microseconds used throughout:
\* (ticks * 1000000 + timescale / 2) / timescale
TicksToUs(ticks, timescale) == (ticks * 1000000 + timescale \div 2) \div timescale

\* lines 2550-2626 for one track: [ret, tk, ub].  The two sample-count checks
\* compare uint32 values; an expansion or a fill that leaves its array is
\* undefined behaviour, after which the arrays hold what was written inside
\* their bounds and garbage elsewhere
BuildSampleIndex(tk, garbage) ==
    IF StscSampleCount(tk) # tk.sampleCount
    THEN [ ret |-> "EPROTO", tk |-> tk, ub |-> {} ]
    ELSE LET x == ExpandStsc(tk, garbage)
             tk1 == [tk EXCEPT !.sampleOffset = x.sampleOffset]
             ub1 == IF x.oob THEN {"stsc_out_of_bounds"} ELSE {}
         IN  IF SttsSampleCount(tk.timeToSampleEntries) # tk.sampleCount
             THEN [ ret |-> "EPROTO", tk |-> tk1, ub |-> ub1 ]
             ELSE LET f == FillDecodingTime(tk1, 1, 0, 0, 0, <<>>)
                  IN  [ ret |-> "OK",
                        tk  |-> [tk1 EXCEPT !.sampleDecodingTime = f.sampleDecodingTime],
                        ub  |-> ub1 \cup (IF f.oob THEN {"stts_out_of_bounds"} ELSE {}) ]

\* lines 2654-2659: the first track of the list with the id, or NoTrack
FindTrackById(tks, id) ==
    IF \E r \in 1..Len(tks) : tks[r].id = id
    THEN CHOOSE r \in 1..Len(tks) :
             tks[r].id = id /\ \A q \in 1..(r - 1) : tks[q].id # id
    ELSE NoTrack

\* a linking where a cdsc reference sets the link of the metadata track only
LinkTrackOneWay(tks, t) ==
    LET tk    == tks[t]
        tkRef == FindTrackById(tks, tk.referenceTrackId)
    IN  IF tk.referenceType = "none" \/ tk.referenceTrackId = 0 \/ tkRef = NoTrack
        THEN [ tks |-> tks, chapTk |-> NoTrack ]
        ELSE IF tk.referenceType = "cdsc" /\ tk.type = "METADATA"
        THEN [ tks |-> [tks EXCEPT ![t].ref = tkRef], chapTk |-> NoTrack ]
        ELSE [ tks |-> tks, chapTk |-> NoTrack ]

\* lines 2650-2676: the links a track's tref gives
LinkTrack(tks, t) ==
    LET tk    == tks[t]
        tkRef == FindTrackById(tks, tk.referenceTrackId)
    IN  IF tk.referenceType = "none" \/ tk.referenceTrackId = 0 \/ tkRef = NoTrack
        THEN [ tks |-> tks, chapTk |-> NoTrack ]
        ELSE IF tk.referenceType = "cdsc" /\ tk.type = "METADATA"
        THEN [ tks |-> [[tks EXCEPT ![tkRef].metadata = t] EXCEPT ![t].ref = tkRef],
               chapTk |-> NoTrack ]
        ELSE IF tk.referenceType = "chap" /\ tks[tkRef].type = "TEXT"
        THEN [ tks |-> [[[tks EXCEPT ![t].chapters = tkRef]
                              EXCEPT ![tkRef].ref = t]
                              EXCEPT ![tkRef].type = "CHAPTERS"],
               chapTk |-> tkRef ]
        ELSE [ tks |-> tks, chapTk |-> NoTrack ]

\* lines 2549-2677: the loop over the tracks.  b holds the list, the counters
\* and videoTk, metaTk, chapTk; the loop returns at the first track whose
\* sample counts disagree
RECURSIVE BuildLoop(_, _, _)
BuildLoop(b, t, garbage) ==
    IF t > Len(b.tks) THEN b
    ELSE LET r == BuildSampleIndex(b.tks[t], garbage)
             tks1 == [b.tks EXCEPT ![t] = r.tk]
         IN  IF r.ret # "OK"
             THEN [b EXCEPT !.ret = r.ret, !.tks = tks1, !.ub = b.ub \cup r.ub]
             ELSE LET type == tks1[t].type
                      l == LinkTrack(tks1, t)
                  IN  BuildLoop(
                        [b EXCEPT
                           !.tks = l.tks,
                           !.ub = b.ub \cup r.ub,
                           !.videoTrackCount = @ + (IF type = "VIDEO" THEN 1 ELSE 0),
                           !.audioTrackCount = @ + (IF type = "AUDIO" THEN 1 ELSE 0),
                           !.hintTrackCount = @ + (IF type = "HINT" THEN 1 ELSE 0),
                           !.metadataTrackCount = @ + (IF type = "METADATA" THEN 1 ELSE 0),
                           !.textTrackCount = @ + (IF type = "TEXT" THEN 1 ELSE 0),
                           !.videoTk = IF type = "VIDEO" THEN t ELSE @,
                           !.metaTk = IF type = "METADATA" THEN t ELSE @,
                           !.chapTk = IF l.chapTk # NoTrack THEN l.chapTk ELSE @],
                        t + 1, garbage)

\* lines 2679-2686: one video and one metadata track without a link are linked
LinkWorkaround(b) ==
    IF /\ b.videoTrackCount = 1 /\ b.metadataTrackCount = 1
       /\ b.audioTrackCount = 0 /\ b.hintTrackCount = 0
       /\ b.videoTk # NoTrack /\ b.metaTk # NoTrack
       /\ b.tks[b.videoTk].metadata = NoTrack
    THEN [b EXCEPT !.tks = [[b.tks EXCEPT ![b.videoTk].metadata = b.metaTk]
                                    EXCEPT ![b.metaTk].ref = b.videoTk]]
    ELSE b

\* fread(ptr, size, 1, file) at offset returns 1: the size bytes are in the
\* file, and size is not 0 (fread returns 0 for a size of 0)
ReadOk(offset, size, fsize) == size > 0 /\ offset + size <= fsize

\* the length of demux->chaptersName and demux->chaptersTime, 100, scaled
MP4_CHAPTERS_MAX == 4

\* lines 2689-2729: the chapter list.  nameLen is the u16 the file holds at the
\* start of every chapter sample.  sampleSize - readBytes is unsigned.  No
\* line compares chaptersCount with the length of the two arrays: a name and
\* a time stored at an index of MP4_CHAPTERS_MAX or more land behind them,
\* and chapters then holds every store in the order it was made
RECURSIVE BuildChapters(_, _, _, _)
BuildChapters(b, i, fsize, nameLen) ==
    LET tk == b.tks[b.chapTk] IN
    IF i >= tk.sampleCount THEN b
    ELSE IF ~ReadOk(At(tk.sampleOffset, i), 2, fsize)
    THEN [b EXCEPT !.ret = "EIO"]
    ELSE IF nameLen <= (At(tk.sampleSize, i) - 2) % U32
    THEN IF ~ReadOk(At(tk.sampleOffset, i) + 2, nameLen, fsize)
         THEN [b EXCEPT !.ret = "EIO"]
         ELSE IF tk.timescale = 0
         THEN [b EXCEPT !.ub = @ \cup {"division_by_zero"}]
         ELSE BuildChapters(
                 [b EXCEPT !.chapters = Append(@,
                     [ time |-> TicksToUs(At(tk.sampleDecodingTime, i), tk.timescale),
                       size |-> nameLen, track |-> b.chapTk, sample |-> i ]),
                           !.ub = IF Len(b.chapters) >= MP4_CHAPTERS_MAX
                                  THEN @ \cup {"chapters_out_of_bounds"} ELSE @],
                 i + 1, fsize, nameLen)
    ELSE BuildChapters(b, i + 1, fsize, nameLen)

\* mp4_demux_build_tracks
BuildTracksOp(tks, fsize, nameLen, garbage) ==
    LET b0 == [ tks |-> tks, ret |-> "OK", ub |-> {}, chapters |-> <<>>,
                videoTrackCount |-> 0, audioTrackCount |-> 0, hintTrackCount |-> 0,
                metadataTrackCount |-> 0, textTrackCount |-> 0,
                videoTk |-> NoTrack, metaTk |-> NoTrack, chapTk |-> NoTrack ]
        b1 == BuildLoop(b0, 1, garbage)
    IN  IF b1.ret # "OK" THEN b1
        ELSE LET b2 == LinkWorkaround(b1)
             IN  IF b2.chapTk = NoTrack THEN b2
                 ELSE BuildChapters(b2, 0, fsize, nameLen)

-----------------------------------------------------------------------------
(* The inputs of SpecBuild: one track with the tables a file can carry *)

\* what an array element the code never wrote can hold
Garbage == {0, LargeFile}

\* stsz: sample_count sizes, uniform or alternating
SampleSizeTables(n) ==
    { [i \in 1..n |-> s] : s \in 1..MaxSampleSize }
    \cup { [i \in 1..n |-> 1 + (i % MaxSampleSize)] }

\* stco: chunk_count offsets
ChunkOffsetTable(n) == [c \in 1..n |-> ChunkBase + (c - 1) * ChunkStride]

\* stsc: up to two entries, first_chunk and samples_per_chunk unconstrained
StscEntries ==
    [ firstChunk : 0..MaxChunks, samplesPerChunk : 0..MaxPerChunk ]

StscTables ==
    { <<>> } \cup { <<e>> : e \in StscEntries }
    \cup { <<e, f>> : e \in StscEntries, f \in StscEntries }

\* stts: no run, one run, two runs, runs that disagree with sample_count, and
\* runs whose lengths add up to sample_count only modulo 2^32
SttsTables(n) ==
    { <<>>,
      << [sampleCount |-> n, sampleDelta |-> 1] >>,
      << [sampleCount |-> 1, sampleDelta |-> 2],
         [sampleCount |-> (n - 1) % U32, sampleDelta |-> 0] >>,
      << [sampleCount |-> (n + 1) % U32, sampleDelta |-> 1] >>,
      << [sampleCount |-> U32 - 1, sampleDelta |-> 1],
         [sampleCount |-> (n + 1) % U32, sampleDelta |-> 1] >> }

\* a video track with the tables given
BuildInput(n, sz, c, stsc, stts) ==
    << [EmptyTrack EXCEPT
          !.id = 1, !.type = "VIDEO", !.timescale = 1000000, !.duration = n,
          !.sampleCount = n, !.sampleSize = sz,
          !.chunkCount = c, !.chunkOffset = ChunkOffsetTable(c),
          !.sampleToChunkEntries = stsc, !.timeToSampleEntries = stts] >>

\* a track of n samples of 2 + nameLen bytes in one chunk, with a tref
LinkedTrack(id, type, n, refType, refId) ==
    [EmptyTrack EXCEPT
        !.id = id, !.type = type, !.timescale = 1000000, !.duration = n,
        !.sampleCount = n, !.sampleSize = [i \in 1..n |-> 3],
        !.chunkCount = 1, !.chunkOffset = << ChunkBase >>,
        !.sampleToChunkEntries = << [firstChunk |-> 1, samplesPerChunk |-> n] >>,
        !.timeToSampleEntries = << [sampleCount |-> n, sampleDelta |-> 1] >>,
        !.referenceType = refType, !.referenceTrackId = refId]

\* the kinds hdlr gives a track, and the tref of a track: none, or a
\* reference of a type to a track id
HandlerTypes == {"VIDEO", "AUDIO", "METADATA", "TEXT"}
TrackTypes == HandlerTypes \cup {"HINT", "UNKNOWN"}
Trefs(ids) ==
    { [ type |-> "none", id |-> 0 ] }
    \cup { [ type |-> ty, id |-> id ] : ty \in {"cdsc", "chap"}, id \in ids }

\* movies of two tracks of every kind with every tref between them, to
\* themselves and to a track that is not there; a chapter track of as many
\* samples as the chapter arrays hold, or one more; movies of three tracks
\* where two tracks refer to the third, or two tracks have the same id, or a
\* video and a metadata track stand beside a third track of any kind
LinkInputs ==
    { << LinkedTrack(1, a, 1, ra.type, ra.id), LinkedTrack(2, c, 1, rc.type, rc.id) >> :
        a \in HandlerTypes, c \in HandlerTypes,
        ra \in Trefs({1, 2}), rc \in Trefs({1, 3}) }
    \cup { << LinkedTrack(1, "VIDEO", 1, "chap", 2), LinkedTrack(2, "TEXT", n, "none", 0) >> :
             n \in {0, MP4_CHAPTERS_MAX, MP4_CHAPTERS_MAX + 1} }
    \cup { << LinkedTrack(1, "VIDEO", 1, ty, 3), LinkedTrack(2, c, 1, ty, 3),
              LinkedTrack(3, d, 1, "none", 0) >> :
             ty \in {"cdsc", "chap"}, c \in {"AUDIO", "METADATA"}, d \in {"TEXT", "AUDIO"} }
    \cup { << LinkedTrack(1, "METADATA", 1, "cdsc", 3), LinkedTrack(2, "METADATA", 1, "cdsc", 3),
              LinkedTrack(3, "VIDEO", 1, "none", 0) >>,
           << LinkedTrack(1, "VIDEO", 1, "chap", 2), LinkedTrack(2, "AUDIO", 1, "none", 0),
              LinkedTrack(2, "TEXT", 1, "none", 0) >> }
    \cup { << LinkedTrack(1, "VIDEO", 1, "none", 0), LinkedTrack(2, "METADATA", 1, "none", 0),
              LinkedTrack(3, d, 1, "none", 0) >> : d \in TrackTypes }

\* a video track with a chap reference to a text track whose samples have
\* the sizes given, from no byte to more than the length prefix and a name
ChapterSampleSizes ==
    { << s >> : s \in 0..MaxSampleSize + 1 } \cup { << 0, 3 >>, << 3, 1 >>, << 2, 4 >> }
ChapterInputs ==
    { << LinkedTrack(1, "VIDEO", 1, "chap", 2),
         [LinkedTrack(2, "TEXT", Len(sz), "none", 0) EXCEPT !.sampleSize = sz] >> :
        sz \in ChapterSampleSizes }

\* the name lengths a chapter sample can start with
NameLens == {0, 1, 2}

NoCall == [ op |-> "none" ]

\* the mvhd fields of a demux as memset(0) by mp4_demux_open
NoMvhd == [ timescale |-> 0, duration |-> 0, creationTime |-> 0, modificationTime |-> 0 ]

\* either any stsc table beside one stts run of sample_count samples, or any
\* stts table beside one chunk holding every sample, or tracks with trefs,
\* or a chapter track with samples of every size and names of every length
InitBuild ==
    /\ pc = "parsed"
    /\ fileSize \in {SmallFile, LargeFile}
    /\ \E n \in 0..MaxSamples :
         \E sz \in SampleSizeTables(n) :
           \/ \E c \in 0..MaxChunks, stsc \in StscTables :
                tracks = BuildInput(n, sz, c, stsc,
                                    << [sampleCount |-> n, sampleDelta |-> 1] >>)
           \/ \E stts \in SttsTables(n) :
                tracks = BuildInput(n, sz, 1,
                                    << [firstChunk |-> 1, samplesPerChunk |-> n] >>, stts)
           \/ n = 0 /\ tracks \in LinkInputs \cup ChapterInputs
    /\ chapSz \in IF tracks \in ChapterInputs THEN NameLens ELSE {1}
    /\ err = "OK"
    /\ ub = {}
    /\ chapters = <<>>
    /\ last = NoCall
    /\ box = <<>>
    /\ mvhd = NoMvhd

-----------------------------------------------------------------------------
(* mp4_demux_open, after the box walk: build_tracks and its outcome *)

\* lines 2938-2953: build_tracks succeeds and open returns the demux, or it
\* fails and open cleans up and returns NULL.  After undefined behaviour the
\* process may also be killed
BuildTracks ==
    /\ pc = "parsed"
    /\ \E g \in Garbage :
         LET b == BuildTracksOp(tracks, fileSize, chapSz, g) IN
         /\ tracks' = b.tks
         /\ chapters' = b.chapters
         /\ ub' = b.ub
         /\ err' = b.ret
         /\ last' = [ op |-> "build_tracks", parsed |-> tracks ]
         /\ \/ pc' = IF b.ret = "OK" THEN "opened" ELSE "failed"
            \/ b.ub # {} /\ pc' = "crashed"
    /\ UNCHANGED <<fileSize, chapSz, box, mvhd>>

NextBuild == BuildTracks

SpecBuild == InitBuild /\ [][NextBuild]_vars

-----------------------------------------------------------------------------
(* mp4_demux_is_sync_sample and mp4_demux_seek *)

\* the value of a uint32_t as an unsigned int converted to int
ToInt(v) == IF v % U32 >= U32 \div 2 THEN (v % U32) - U32 ELSE v % U32

\* lines 306-320: the scan of the sync table from entry i (0-based); prev is
\* what *prevSyncSampleIdx holds on return (-1, the caller's value, if unset)
RECURSIVE SyncScan(_, _, _)
SyncScan(tk, sampleIdx, i) ==
    LET e == tk.syncSampleEntries
        prevOf(k) == IF k > 0 THEN ToInt(At(e, k - 1) - 1) ELSE -1
    IN  IF i >= Len(e) THEN [ isSync |-> FALSE, prev |-> prevOf(i) ]
        ELSE IF (At(e, i) - 1) % U32 = sampleIdx THEN [ isSync |-> TRUE, prev |-> -1 ]
        ELSE IF (At(e, i) - 1) % U32 > sampleIdx THEN [ isSync |-> FALSE, prev |-> prevOf(i) ]
        ELSE SyncScan(tk, sampleIdx, i + 1)

\* mp4_demux_is_sync_sample: every sample is a sync sample without a table
IsSyncSample(tk, sampleIdx) ==
    IF ~tk.hasSyncSampleEntries THEN [ isSync |-> TRUE, prev |-> -1 ]
    ELSE SyncScan(tk, sampleIdx, 0)

\* line 3017: the target in ticks
SeekTicks(time_offset, timescale) == (time_offset * timescale + 500000) \div 1000000

\* lines 3018-3023: the first guess, clamped into the track.  anyQuotient is
\* what the division yields when duration is 0
SeekStart(tk, ts, anyQuotient) ==
    LET q == IF tk.duration = 0 THEN anyQuotient
             ELSE (tk.sampleCount * ts + tk.duration - 1) \div tk.duration
        start == IF ToInt(q) < 0 THEN 0 ELSE ToInt(q)
    IN  IF start >= tk.sampleCount THEN ToInt(tk.sampleCount - 1) ELSE start

\* a seek that trusts its first guess
SeekForwardNone(tk, start, ts) == start

\* lines 3024-3026: forward while the sample is before the target
RECURSIVE SeekForward(_, _, _)
SeekForward(tk, start, ts) ==
    IF start % U32 < tk.sampleCount /\ At(tk.sampleDecodingTime, start) < ts
    THEN SeekForward(tk, start + 1, ts)
    ELSE start

\* lines 3027-3042: backward to a sample at or before the target.  The scan
\* starts at index sampleCount when every sample is before the target: that
\* read is outside sampleDecodingTime and yields a time at or before the
\* target (garbageLow) or after it
RECURSIVE SeekBackward(_, _, _, _, _)
SeekBackward(tk, i, ts, sync, garbageLow) ==
    IF i < 0 THEN [ found |-> FALSE, start |-> i, oob |-> FALSE ]
    ELSE LET oob == i >= tk.sampleCount
             atOrBefore == IF oob THEN garbageLow
                           ELSE At(tk.sampleDecodingTime, i) <= ts
             s == IsSyncSample(tk, i)
             rest == SeekBackward(tk, i - 1, ts, sync, garbageLow)
         IN  IF atOrBefore /\ (s.isSync \/ ~sync)
             THEN [ found |-> TRUE, start |-> i, oob |-> oob ]
             ELSE IF atOrBefore /\ s.prev >= 0
             THEN [ found |-> TRUE, start |-> s.prev, oob |-> oob ]
             ELSE [ rest EXCEPT !.oob = @ \/ oob ]

\* lines 3016-3061 for track t: [found, tks, ub]
SeekTrack(tks, t, time_offset, sync, u) ==
    LET tk == tks[t]
        ts == SeekTicks(time_offset, tk.timescale)
        start == SeekForward(tk, SeekStart(tk, ts, u.quotient), ts)
        r == SeekBackward(tk, start, ts, sync, u.garbageLow)
        ub1 == (IF tk.duration = 0 THEN {"division_by_zero"} ELSE {})
               \cup (IF r.oob THEN {"seek_out_of_bounds"} ELSE {})
        m == tk.metadata
        sameTime == IF r.start >= tk.sampleCount THEN u.garbageLow
                    ELSE At(tk.sampleDecodingTime, r.start)
                           = At(tks[m].sampleDecodingTime, r.start)
        tks1 == [tks EXCEPT ![t].currentSample = r.start]
    IN  IF ~r.found THEN [ found |-> FALSE, tks |-> tks, ub |-> ub1 ]
        ELSE [ found |-> TRUE,
               tks |-> IF m # NoTrack /\ r.start < tks[m].sampleCount /\ sameTime
                       THEN [tks1 EXCEPT ![m].currentSample = r.start]
                       ELSE tks1,
               ub |-> ub1 ]

\* a seek that skips no track
RECURSIVE SeekLoopEveryTrack(_, _, _, _, _, _)
SeekLoopEveryTrack(tks, t, time_offset, sync, u, ubAcc) ==
    IF t > Len(tks) THEN [ ret |-> "OK", tks |-> tks, ub |-> ubAcc ]
    ELSE LET r == SeekTrack(tks, t, time_offset, sync, u)
         IN  IF r.found
             THEN SeekLoopEveryTrack(r.tks, t + 1, time_offset, sync, u, ubAcc \cup r.ub)
             ELSE [ ret |-> "ENOENT", tks |-> r.tks, ub |-> ubAcc \cup r.ub ]

\* lines 3010-3064: the loop over the tracks; chapter tracks and metadata
\* tracks that follow a reference are skipped; the first track without a
\* sample to seek to ends the call with ENOENT
RECURSIVE SeekLoop(_, _, _, _, _, _)
SeekLoop(tks, t, time_offset, sync, u, ubAcc) ==
    IF t > Len(tks) THEN [ ret |-> "OK", tks |-> tks, ub |-> ubAcc ]
    ELSE IF tks[t].type = "CHAPTERS"
            \/ (tks[t].type = "METADATA" /\ tks[t].ref # NoTrack)
    THEN SeekLoop(tks, t + 1, time_offset, sync, u, ubAcc)
    ELSE LET r == SeekTrack(tks, t, time_offset, sync, u)
         IN  IF r.found
             THEN SeekLoop(r.tks, t + 1, time_offset, sync, u, ubAcc \cup r.ub)
             ELSE [ ret |-> "ENOENT", tks |-> r.tks, ub |-> ubAcc \cup r.ub ]

\* mp4_demux_seek
SeekOp(tks, time_offset, sync, u) == SeekLoop(tks, 1, time_offset, sync, u, {})

-----------------------------------------------------------------------------
(* mp4_demux_get_track_next_sample *)

\* memset(track_sample, 0, ...)
ZeroSample ==
    [ sample_size |-> 0, metadata_size |-> 0, sample_dts |-> 0, next_sample_dts |-> 0 ]

NoBuffer == [ present |-> FALSE, size |-> 0 ]

\* lines 3254-3279: the metadata sample at the cursor of the main track.
\* Beyond the metadata track's own sample count the size and the offset read
\* are garbage and the read of the sample succeeds or not
NextMetadata(tks, t, fsize, metadata_buffer, u) ==
    LET tk == tks[t]
        m == tk.metadata
        cur == tk.currentSample
        oob == cur >= tks[m].sampleCount
        size == IF oob THEN u.garbage ELSE At(tks[m].sampleSize, cur)
        readOk == IF oob THEN u.low
                  ELSE ReadOk(At(tks[m].sampleOffset, cur), size, fsize)
    IN  [ metadata_size |-> size,
          ret |-> IF metadata_buffer.present /\ size <= metadata_buffer.size /\ ~readOk
                  THEN "EIO" ELSE "OK",
          ub |-> IF oob THEN {"metadata_out_of_bounds"} ELSE {} ]

\* lines 3280-3286: a division by a timescale of 0 yields anything
SampleDts(tk, i, u) ==
    IF tk.timescale = 0 THEN u.garbage
    ELSE TicksToUs(At(tk.sampleDecodingTime, i), tk.timescale)

\* a next_sample that steps over the sample it could not deliver
NextSampleOfTrackSkipping(tks, t, fsize, sample_buffer, metadata_buffer, u) ==
    LET size == At(tks[t].sampleSize, tks[t].currentSample) IN
    IF sample_buffer.present /\ size > sample_buffer.size
    THEN [ ret |-> "ENOBUFS",
           tks |-> [tks EXCEPT ![t].currentSample = @ + 1], ub |-> {},
           sample |-> [ZeroSample EXCEPT !.sample_size = size] ]
    ELSE [ ret |-> "EIO", tks |-> tks, ub |-> {}, sample |-> ZeroSample ]

\* lines 3231-3288 for track t, whose cursor is before the end
NextSampleOfTrack(tks, t, fsize, sample_buffer, metadata_buffer, u) ==
    LET tk == tks[t]
        cur == tk.currentSample
        size == At(tk.sampleSize, cur)
        s1 == [ZeroSample EXCEPT !.sample_size = size]
        md == IF tk.metadata = NoTrack
              THEN [ metadata_size |-> 0, ret |-> "OK", ub |-> {} ]
              ELSE NextMetadata(tks, t, fsize, metadata_buffer, u)
        s2 == [s1 EXCEPT !.metadata_size = md.metadata_size]
    IN  IF sample_buffer.present /\ size <= sample_buffer.size
           /\ ~ReadOk(At(tk.sampleOffset, cur), size, fsize)
        THEN [ ret |-> "EIO", tks |-> tks, ub |-> {}, sample |-> s1 ]
        ELSE IF sample_buffer.present /\ size > sample_buffer.size
        THEN [ ret |-> "ENOBUFS", tks |-> tks, ub |-> {}, sample |-> s1 ]
        ELSE IF md.ret # "OK"
        THEN [ ret |-> md.ret, tks |-> tks, ub |-> md.ub, sample |-> s2 ]
        ELSE [ ret |-> "OK",
               tks |-> [tks EXCEPT ![t].currentSample = cur + 1],
               ub |-> md.ub \cup (IF tk.timescale = 0 THEN {"division_by_zero"} ELSE {}),
               sample |-> [s2 EXCEPT
                   !.sample_dts = SampleDts(tk, cur, u),
                   !.next_sample_dts =
                       IF cur < (tk.sampleCount - 1) % U32
                       THEN SampleDts(tk, cur + 1, u) ELSE 0] ]

\* a next_sample that starts over at the end of the track
NextSampleOpRewinding(tks, fsize, track_id, sample_buffer, metadata_buffer, u) ==
    LET t == FindTrackById(tks, track_id) IN
    IF t = NoTrack
    THEN [ ret |-> "ENOENT", tks |-> tks, ub |-> {}, sample |-> ZeroSample ]
    ELSE IF tks[t].currentSample < tks[t].sampleCount
    THEN NextSampleOfTrack(tks, t, fsize, sample_buffer, metadata_buffer, u)
    ELSE [ ret |-> "OK", tks |-> [tks EXCEPT ![t].currentSample = 0], ub |-> {},
           sample |-> ZeroSample ]

\* mp4_demux_get_track_next_sample
NextSampleOp(tks, fsize, track_id, sample_buffer, metadata_buffer, u) ==
    LET t == FindTrackById(tks, track_id) IN
    IF t = NoTrack
    THEN [ ret |-> "ENOENT", tks |-> tks, ub |-> {}, sample |-> ZeroSample ]
    ELSE IF tks[t].currentSample < tks[t].sampleCount
    THEN NextSampleOfTrack(tks, t, fsize, sample_buffer, metadata_buffer, u)
    ELSE [ ret |-> "OK", tks |-> tks, ub |-> {}, sample |-> ZeroSample ]

-----------------------------------------------------------------------------
(* mp4_demux_get_media_info and mp4_demux_get_track_info *)

\* the seconds from 1904-01-01 to 1970-01-01, 0x7c25b080, scaled with U32
MP4_MAC_TO_UNIX_EPOCH_OFFSET == 10

\* memset(media_info, 0, ...)
ZeroMediaInfo ==
    [ duration |-> 0, creation_time |-> 0, modification_time |-> 0, track_count |-> 0 ]

\* mp4_demux_get_media_info: a division by a timescale of 0 yields anything.
\* The times are uint64_t and the subtraction wraps
GetMediaInfoOp(mv, tks, garbage) ==
    [ ret |-> "OK",
      ub |-> IF mv.timescale = 0 THEN {"division_by_zero"} ELSE {},
      info |-> [ duration |-> IF mv.timescale = 0 THEN garbage
                              ELSE TicksToUs(mv.duration, mv.timescale),
                 creation_time |-> (mv.creationTime - MP4_MAC_TO_UNIX_EPOCH_OFFSET) % S64,
                 modification_time |->
                     (mv.creationTime - MP4_MAC_TO_UNIX_EPOCH_OFFSET) % S64,
                 track_count |-> Len(tks) ] ]

\* memset(track_info, 0, ...), for the fields the model keeps
ZeroTrackInfo ==
    [ id |-> 0, type |-> "UNKNOWN", duration |-> 0, creation_time |-> 0,
      modification_time |-> 0, sample_count |-> 0, has_metadata |-> 0 ]

\* mp4_demux_get_track_info, track_idx counted from 0.  The codec fields
\* and the metadata formats are copied from fields the model does not keep
GetTrackInfoOp(tks, track_idx, garbage) ==
    IF ~(track_idx < Len(tks))
    THEN [ ret |-> "EINVAL", ub |-> {}, info |-> ZeroTrackInfo ]
    ELSE LET tk == tks[track_idx + 1] IN
         [ ret |-> "OK",
           ub |-> IF tk.timescale = 0 THEN {"division_by_zero"} ELSE {},
           info |-> [ id |-> tk.id, type |-> tk.type,
                      duration |-> IF tk.timescale = 0 THEN garbage
                                   ELSE TicksToUs(tk.duration, tk.timescale),
                      creation_time |->
                          (tk.creationTime - MP4_MAC_TO_UNIX_EPOCH_OFFSET) % S64,
                      modification_time |->
                          (tk.creationTime - MP4_MAC_TO_UNIX_EPOCH_OFFSET) % S64,
                      sample_count |-> tk.sampleCount,
                      has_metadata |-> IF tk.metadata # NoTrack THEN 1 ELSE 0 ] ]

-----------------------------------------------------------------------------
(* The movies of Spec: what open leaves for files with one or two tracks *)

\* stss: absent, empty, the odd samples, the even samples, the last sample,
\* a descending table, and a table with the sample number 0
SyncTables(n) ==
    { [ has |-> FALSE, entries |-> <<>> ],
      [ has |-> TRUE, entries |-> <<>> ],
      [ has |-> TRUE, entries |-> [k \in 1..((n + 1) \div 2) |-> 2 * k - 1] ],
      [ has |-> TRUE, entries |-> [k \in 1..(n \div 2) |-> 2 * k] ],
      [ has |-> TRUE, entries |-> << n >> ],
      [ has |-> TRUE, entries |-> << 3, 1 >> ],
      [ has |-> TRUE, entries |-> << 0 >> ] }

AllSync == [ has |-> FALSE, entries |-> <<>> ]
OddSync(n) == [ has |-> TRUE, entries |-> [k \in 1..((n + 1) \div 2) |-> 2 * k - 1] ]

\* stts: one tick per sample, or one tick and then none
UniformStts(n) == << [sampleCount |-> n, sampleDelta |-> 1] >>
PlateauStts(n) ==
    << [sampleCount |-> 2, sampleDelta |-> 1], [sampleCount |-> n - 2, sampleDelta |-> 0] >>

\* a track of n samples in one chunk at base
MovieTrack(id, type, n, size, base, stts, timescale, duration, sync) ==
    [EmptyTrack EXCEPT
        !.id = id, !.type = type, !.timescale = timescale, !.duration = duration,
        !.sampleCount = n, !.sampleSize = [i \in 1..n |-> size[i]],
        !.chunkCount = 1, !.chunkOffset = << base >>,
        !.sampleToChunkEntries = << [firstChunk |-> 1, samplesPerChunk |-> n] >>,
        !.timeToSampleEntries = stts,
        !.hasSyncSampleEntries = sync.has, !.syncSampleEntries = sync.entries]

MixedSizes == [i \in 1..U32 |-> 1 + (i % MaxSampleSize)]
ChapterSizes == [i \in 1..U32 |-> 2 + chapSz]
SecondBase == ChunkBase + ChunkStride * SeekSamples

Video(n, stts, timescale, duration, sync) ==
    MovieTrack(1, "VIDEO", n, MixedSizes, ChunkBase, stts, timescale, duration, sync)

\* a second track of n samples after the video track's chunk
Second(type, n, stts, refType, refId) ==
    [MovieTrack(2, type, n, IF type = "TEXT" THEN ChapterSizes ELSE MixedSizes,
                SecondBase, stts, 1000000, n, AllSync)
        EXCEPT !.referenceType = refType, !.referenceTrackId = refId]

\* a video track of timescale 90000 with samples 3000 ticks apart, counted
\* in units of 3000 ticks: (3000 k * 1000000 + 45000) / 90000 is
\* (k * 1000000 + 15) / 30
Video90k == Video(SeekSamples, UniformStts(SeekSamples), 30, SeekSamples, AllSync)

OneTrackMovies ==
    { << Video90k >> }
    \cup { << Video(SeekSamples, UniformStts(SeekSamples), 1000000, d, sync) >> :
        d \in {1, SeekSamples, U32 - 1}, sync \in SyncTables(SeekSamples) }
    \cup { << Video(SeekSamples, stts, 1000000, d, sync) >> :
        stts \in {UniformStts(SeekSamples), PlateauStts(SeekSamples)},
        d \in {0, 1, SeekSamples}, sync \in {AllSync, OddSync(SeekSamples)} }
    \cup { << Video(SeekSamples, UniformStts(SeekSamples), ts, SeekSamples, sync) >> :
        ts \in {0, 500000}, sync \in {AllSync, OddSync(SeekSamples)} }
    \cup UNION { { << Video(n, UniformStts(n), 1000000, n, sync) >> :
                      sync \in {AllSync, OddSync(n)} } : n \in {0, 1} }

TwoTrackMovies ==
    LET n == MaxSamples
        video(refType, refId) ==
            [Video(n, UniformStts(n), 1000000, n, OddSync(n))
                EXCEPT !.referenceType = refType, !.referenceTrackId = refId]
    IN  UNION { { << video("none", 0), Second("METADATA", m, stts, refType, 1) >> :
                      stts \in {UniformStts(m), << [sampleCount |-> m, sampleDelta |-> 2] >>},
                      refType \in {"cdsc", "none"} } : m \in {n, n - 1} }
        \cup { << Second("METADATA", n, UniformStts(n), "cdsc", 1), video("none", 0) >>,
               << video("chap", 2), Second("TEXT", n, UniformStts(n), "none", 0) >>,
               << Second("AUDIO", n, UniformStts(n), "none", 0),
                  Second("METADATA", n, UniformStts(n), "cdsc", 9) >> }

\* what mvhd and the mdhd of every track hold: a movie made after 1970 and
\* changed later, a movie made before 1970 and changed after, no mvhd at all
Mvhd(creationTime, modificationTime) ==
    [ timescale |-> 1000000, duration |-> SeekSamples,
      creationTime |-> creationTime, modificationTime |-> modificationTime ]

PlainMvhd == Mvhd(2 * MP4_MAC_TO_UNIX_EPOCH_OFFSET, 3 * MP4_MAC_TO_UNIX_EPOCH_OFFSET)

MovieHeaders ==
    { PlainMvhd,
      Mvhd(MP4_MAC_TO_UNIX_EPOCH_OFFSET - 1, MP4_MAC_TO_UNIX_EPOCH_OFFSET + 1),
      NoMvhd }

\* lines 714-763: the mdhd of track t holds the times of the movie, t later
Mdhd(tks, h) ==
    [t \in 1..Len(tks) |->
        [tks[t] EXCEPT !.creationTime = h.creationTime + t,
                       !.modificationTime = h.modificationTime + 2 * t]]

\* the state after a successful mp4_demux_open of a file with these tracks
Init ==
    /\ pc = "opened"
    /\ chapSz = 1
    /\ \E fs \in {SmallFile, LargeFile}, tks \in OneTrackMovies \cup TwoTrackMovies :
       \E h \in IF Len(tks) = 2 THEN MovieHeaders ELSE {PlainMvhd} :
         LET b == BuildTracksOp(Mdhd(tks, h), fs, chapSz, 0) IN
         /\ fs = SmallFile =>
              tks = << Video(SeekSamples, UniformStts(SeekSamples), 1000000,
                             SeekSamples, AllSync) >>
         /\ b.ret = "OK" /\ b.ub = {}
         /\ fileSize = fs
         /\ tracks = b.tks
         /\ chapters = b.chapters
         /\ mvhd = h
    /\ err = "OK"
    /\ ub = {}
    /\ last = NoCall
    /\ box = <<>>

-----------------------------------------------------------------------------
(* The calls on an open demuxer *)

SeekTimes == 0..(SeekSamples + 1)
TrackIdArgs == {1, 2, 3}
TrackIdxArgs == {0, 1, 2}
SmallBuf == [ present |-> TRUE, size |-> 1 ]
BigBuf == [ present |-> TRUE, size |-> BigBuffer ]
\* the sample buffer and the metadata buffer of a call
BufferArgs ==
    { <<NoBuffer, NoBuffer>>, <<SmallBuf, NoBuffer>>, <<BigBuf, NoBuffer>>,
      <<BigBuf, SmallBuf>>, <<BigBuf, BigBuf>> }
\* what undefined behaviour in a call may yield
SeekChoices == [ quotient : {0, U32 \div 2 - 1}, garbageLow : BOOLEAN ]
SampleChoices == [ garbage : Garbage, low : BOOLEAN ]
SeekDefault == [ quotient |-> 0, garbageLow |-> FALSE ]
SampleDefault == [ garbage |-> 0, low |-> FALSE ]

\* how an operation with the undefined behaviour ub ends: as it should
\* (done), or with the process gone, which a NULL pointer dereferenced makes
\* certain
Outcomes(ubs, done) ==
    IF ubs = {} THEN {done}
    ELSE IF "null_dereference" \in ubs THEN {"crashed"}
    ELSE {done, "crashed"}

Cursors(tks) == [t \in 1..Len(tks) |-> tks[t].currentSample]

\* mp4_demux_seek(demux, time_offset, sync).  ub is the undefined behaviour
\* of the call, after which the process goes on or is killed
Seek ==
    /\ pc = "opened"
    /\ \E time_offset \in SeekTimes, sync \in BOOLEAN :
       \E u \in IF SeekOp(tracks, time_offset, sync, SeekDefault).ub = {}
                THEN {SeekDefault} ELSE SeekChoices :
       \E r \in {SeekOp(tracks, time_offset, sync, u)} :
         /\ tracks' = r.tks
         /\ ub' = r.ub
         /\ err' = r.ret
         /\ last' = [ op |-> "seek", time_offset |-> time_offset, sync |-> sync,
                      before |-> Cursors(tracks), ret |-> r.ret ]
         /\ \/ pc' = pc
            \/ r.ub # {} /\ pc' = "crashed"
    /\ UNCHANGED <<fileSize, chapSz, chapters, box, mvhd>>

\* mp4_demux_get_track_next_sample(demux, track_id, sample_buffer, ...)
NextSample ==
    /\ pc = "opened"
    /\ \E track_id \in TrackIdArgs, b \in BufferArgs :
       \E u \in IF NextSampleOp(tracks, fileSize, track_id, b[1], b[2],
                                SampleDefault).ub = {}
                THEN {SampleDefault} ELSE SampleChoices :
       \E r \in {NextSampleOp(tracks, fileSize, track_id, b[1], b[2], u)} :
         /\ tracks' = r.tks
         /\ ub' = r.ub
         /\ err' = r.ret
         /\ last' = [ op |-> "next_sample", track_id |-> track_id,
                      sample_buffer |-> b[1], metadata_buffer |-> b[2],
                      before |-> Cursors(tracks), ret |-> r.ret,
                      sample |-> r.sample ]
         /\ \/ pc' = pc
            \/ r.ub # {} /\ pc' = "crashed"
    /\ UNCHANGED <<fileSize, chapSz, chapters, box, mvhd>>

\* mp4_demux_get_media_info(demux, media_info)
GetMediaInfo ==
    /\ pc = "opened"
    /\ \E g \in IF mvhd.timescale = 0 THEN Garbage ELSE {0} :
       \E r \in {GetMediaInfoOp(mvhd, tracks, g)} :
         /\ ub' = r.ub
         /\ err' = r.ret
         /\ last' = [ op |-> "media_info", before |-> Cursors(tracks), ret |-> r.ret,
                      info |-> r.info ]
         /\ pc' \in Outcomes(r.ub, pc)
    /\ UNCHANGED <<fileSize, chapSz, tracks, chapters, box, mvhd>>

\* mp4_demux_get_track_info(demux, track_idx, track_info)
GetTrackInfo ==
    /\ pc = "opened"
    /\ \E track_idx \in TrackIdxArgs :
       \E g \in IF GetTrackInfoOp(tracks, track_idx, 0).ub = {} THEN {0} ELSE Garbage :
       \E r \in {GetTrackInfoOp(tracks, track_idx, g)} :
         /\ ub' = r.ub
         /\ err' = r.ret
         /\ last' = [ op |-> "track_info", track_idx |-> track_idx,
                      before |-> Cursors(tracks), ret |-> r.ret, info |-> r.info ]
         /\ pc' \in Outcomes(r.ub, pc)
    /\ UNCHANGED <<fileSize, chapSz, tracks, chapters, box, mvhd>>

Next == Seek \/ NextSample \/ GetMediaInfo \/ GetTrackInfo

Spec == Init /\ [][Next]_vars

-----------------------------------------------------------------------------
(* The box walk: files, the walk state, reads and seeks *)

\* A file is a sequence of 32-bit words, and every size and offset of the box
\* walk is counted in words: a box header is 2 words, a largesize 2 more.
\* The box types are words too, renumbered so that all of them are below
\* MP4_TAG_TYPE_SCALE and above every box size a file of the model can hold.
\* The first byte of a type counts in units of MP4_TAG_TYPE_SCALE, which
\* stands for 0x1000000: box.type & 0xFFFFFF is box.type % MP4_TAG_TYPE_SCALE
MP4_UUID == 40
MP4_MOVIE_BOX == 41
MP4_USER_DATA_BOX == 42
MP4_TRACK_BOX == 43
MP4_MEDIA_BOX == 44
MP4_MEDIA_INFORMATION_BOX == 45
MP4_SAMPLE_TABLE_BOX == 46
MP4_SYNC_SAMPLE_BOX == 47
MP4_META_BOX == 48
MP4_KEYS_BOX == 49
MP4_ILST_BOX == 50
MP4_DATA_BOX == 51
MP4_METADATA_TAG_TYPE_TITLE == 52
\* a type the walk has no case for
FreeBox == 53
MP4_METADATA_TAG_TYPE_ARTIST == 54
MP4_METADATA_TAG_TYPE_DATE == 55
MP4_METADATA_TAG_TYPE_COMMENT == 56
MP4_METADATA_TAG_TYPE_COPYRIGHT == 57
MP4_METADATA_TAG_TYPE_MAKER == 58
MP4_METADATA_TAG_TYPE_MODEL == 59
MP4_METADATA_TAG_TYPE_VERSION == 60
MP4_METADATA_TAG_TYPE_ENCODER == 61

MP4_TAG_TYPE_SCALE == 64
\* the first byte of a tag type: the copyright sign 0xA9 of the tags of
\* lines 109-117, and the letter a of aART
CopyrightSign == 2
LetterA == 1
TagOf(first, rest) == first * MP4_TAG_TYPE_SCALE + rest

MP4_METADATA_CLASS_UTF8 == 1

\* the value of an expression, computed once: the element of a set of one
Once(S) == CHOOSE v \in S : TRUE

\* off_t is a signed 64-bit integer
OffMax == S64 \div 2 - 1

\* the off_t a uint64_t converts to
ToOff(v) == IF v % S64 > OffMax THEN (v % S64) - S64 ELSE v % S64

\* the walk state: the file position, the error that ended the walk, the box
\* tree (nodes in the order they were allocated, parent 0 being demux->root),
\* the heap (one record per allocation made), the tracks and the metadata
\* fields of struct mp4_demux.  A pointer is an index into heap, 0 being NULL
Walk0 ==
    [ pos |-> 0, ret |-> "OK", nodes |-> <<>>, heap |-> <<>>, tks |-> <<>>,
      metaMetadataCount |-> 0, metaMetadataKey |-> 0, metaMetadataValue |-> 0,
      metaKeys |-> <<>>, metaValues |-> <<>>,
      udtaMetadataCount |-> 0, udtaMetadataKey |-> 0, udtaMetadataValue |-> 0,
      udtaKeys |-> <<>>, udtaValues |-> <<>>, udtaMetadataParseIdx |-> 0,
      ub |-> {} ]

Fail(s, e) == [s EXCEPT !.ret = e]

\* malloc / calloc: a new allocation; Ptr is the pointer to the next one
Ptr(s) == Len(s.heap) + 1
AllocData(s, kind, data) ==
    [s EXCEPT !.heap = Append(@, [kind |-> kind, freed |-> 0, data |-> data])]
Alloc(s, kind) == AllocData(s, kind, <<>>)

\* fread of n words at the position: all of them are in the file, and n is
\* not 0
CanRead(f, s, n) == n > 0 /\ s.pos >= 0 /\ s.pos + n <= Len(f)
Word(f, s) == f[s.pos + 1]
Skip(s, n) == [s EXCEPT !.pos = @ + n]

\* fseeko(file, n, SEEK_CUR) succeeds: the new position is an off_t and not
\* negative
CanSeek(s, n) == s.pos + n >= 0 /\ s.pos + n <= OffMax

\* the type of a node; demux->root has type 0
TypeOf(s, node) == IF node = 0 THEN 0 ELSE s.nodes[node].type
ParentOf(s, node) == s.nodes[node].parent

-----------------------------------------------------------------------------
(* The parsers of the boxes with a payload of their own.  Each yields the    *)
(* walk state and the words it read; a failure is in the ret of the state.  *)

\* MP4_SKIP(file, readBytes, maxBytes), then return readBytes
SkipRest(s, n, maxBytes) ==
    IF n < maxBytes
    THEN IF CanSeek(s, maxBytes - n)
         THEN [ s |-> Skip(s, maxBytes - n), n |-> maxBytes ]
         ELSE [ s |-> Fail(s, "EINVAL"), n |-> n ]
    ELSE [ s |-> s, n |-> n ]

\* a track as the walk knows it: its allocation and its stss table
WalkTrack(ptr) ==
    [ ptr |-> ptr, syncSampleEntries |-> 0, syncSampleEntryCount |-> 0, stss |-> <<>> ]

\* mp4_demux_parse_stss: the table is allocated before the size of the box is
\* compared with the entry count
ParseStss(f, s, maxBytes, track) ==
    IF track = 0 THEN [ s |-> Fail(s, "EINVAL"), n |-> 0 ]
    ELSE IF s.tks[track].syncSampleEntries # 0 THEN [ s |-> Fail(s, "EEXIST"), n |-> 0 ]
    ELSE IF ~(maxBytes >= 2) THEN [ s |-> Fail(s, "EINVAL"), n |-> 0 ]
    ELSE IF ~CanRead(f, s, 2) THEN [ s |-> Fail(s, "EIO"), n |-> 0 ]
    ELSE LET count == f[s.pos + 2]
             s1 == Alloc([Skip(s, 2) EXCEPT
                            !.tks[track].syncSampleEntries = Ptr(s),
                            !.tks[track].syncSampleEntryCount = count],
                         "syncSampleEntries")
         IN  IF ~(maxBytes >= (2 + count) % U32) THEN [ s |-> Fail(s1, "EINVAL"), n |-> 2 ]
             ELSE IF count > 0 /\ ~CanRead(f, s1, count)
             THEN [ s |-> Fail(s1, "EIO"), n |-> 2 ]
             ELSE SkipRest([Skip(s1, count) EXCEPT
                               !.tks[track].stss = SubSeq(f, s1.pos + 1, s1.pos + count)],
                           2 + count, maxBytes)

\* lines 1945-1980: the keys of a keys box from entry i on.  A key is its
\* size (2 words or more), its namespace and its bytes; fread of no bytes
\* fails
RECURSIVE ParseKeys(_, _, _, _, _)
ParseKeys(f, s, maxBytes, i, n) ==
    IF i >= s.metaMetadataCount THEN SkipRest(s, n, maxBytes)
    ELSE IF ~CanRead(f, s, 1) THEN [ s |-> Fail(s, "EIO"), n |-> n ]
    ELSE IF ~(Word(f, s) >= 2) THEN [ s |-> Fail(s, "EINVAL"), n |-> n ]
    ELSE LET keySize == Word(f, s) - 2
             s1 == Skip(s, 1)
         IN  IF ~CanRead(f, s1, 1) THEN [ s |-> Fail(s1, "EIO"), n |-> n ]
             ELSE IF ~(maxBytes - (n + 2) >= keySize)
             THEN [ s |-> Fail(Skip(s1, 1), "EINVAL"), n |-> n ]
             ELSE LET key == IF CanRead(f, Skip(s1, 1), keySize)
                             THEN SubSeq(f, s1.pos + 2, s1.pos + 1 + keySize) ELSE <<>>
                      s2 == AllocData([Skip(s1, 1) EXCEPT !.metaKeys[i + 1] = Ptr(s)],
                                      "metaMetadataKey[]", key)
                  IN  IF ~CanRead(f, s2, keySize) THEN [ s |-> Fail(s2, "EIO"), n |-> n ]
                      ELSE ParseKeys(f, Skip(s2, keySize), maxBytes, i + 1,
                                     n + 2 + keySize)

\* mp4_demux_parse_meta_keys: entry_count is stored in the demux before the
\* size of the box is compared with it and before the tables are allocated
ParseMetaKeys(f, s, maxBytes) ==
    IF ~(maxBytes >= 2) THEN [ s |-> Fail(s, "EINVAL"), n |-> 0 ]
    ELSE IF ~CanRead(f, s, 2) THEN [ s |-> Fail(s, "EIO"), n |-> 0 ]
    ELSE LET count == f[s.pos + 2]
             s1 == [Skip(s, 2) EXCEPT !.metaMetadataCount = count]
         IN  IF ~(maxBytes >= (1 + count * 2) % U32)
             THEN [ s |-> Fail(s1, "EINVAL"), n |-> 2 ]
             ELSE LET s2 == Alloc([s1 EXCEPT !.metaMetadataKey = Ptr(s1),
                                             !.metaKeys = [k \in 1..count |-> 0]],
                                  "metaMetadataKey")
                      s3 == Alloc([s2 EXCEPT !.metaMetadataValue = Ptr(s2),
                                             !.metaValues = [k \in 1..count |-> 0]],
                                  "metaMetadataValue")
                  IN  ParseKeys(f, s3, maxBytes, 0, 2)

\* box.type & 0xFFFFFF is one of the MP4_METADATA_TAG_TYPE_ values of lines
\* 2020-2028
TagTypes ==
    { MP4_METADATA_TAG_TYPE_ARTIST, MP4_METADATA_TAG_TYPE_TITLE,
      MP4_METADATA_TAG_TYPE_DATE, MP4_METADATA_TAG_TYPE_COMMENT,
      MP4_METADATA_TAG_TYPE_COPYRIGHT, MP4_METADATA_TAG_TYPE_MAKER,
      MP4_METADATA_TAG_TYPE_MODEL, MP4_METADATA_TAG_TYPE_VERSION,
      MP4_METADATA_TAG_TYPE_ENCODER }
IsTagType(type) == (type % MP4_TAG_TYPE_SCALE) \in TagTypes

\* lines 2030-2056: a udta tag.  The slot udtaMetadataParseIdx of the two
\* tables is written without a look at the tables or at their length; the
\* key is the four bytes of the type of the enclosing box
ParseUdtaTag(f, s, type, valueLen) ==
    LET idx == s.udtaMetadataParseIdx
        s1 == [s EXCEPT !.udtaMetadataParseIdx = (@ + 1) % U32]
    IN  IF s.udtaMetadataKey = 0
        THEN [ s |-> Fail([s1 EXCEPT !.ub = @ \cup {"null_dereference"}], "SIGSEGV"),
               n |-> 2 ]
        ELSE LET inside == idx < Len(s.udtaKeys)
                 value == IF CanRead(f, s, valueLen)
                          THEN SubSeq(f, s.pos + 1, s.pos + valueLen) ELSE <<>>
                 s2 == AllocData(IF inside THEN [s1 EXCEPT !.udtaKeys[idx + 1] = Ptr(s1)]
                                 ELSE [s1 EXCEPT !.ub = @ \cup {"udta_out_of_bounds"}],
                                 "udtaMetadataKey[]", << type >>)
                 s3 == AllocData(IF inside THEN [s2 EXCEPT !.udtaValues[idx + 1] = Ptr(s2)]
                                 ELSE s2,
                                 "udtaMetadataValue[]", value)
             IN  IF ~CanRead(f, s3, valueLen) THEN [ s |-> Fail(s3, "EIO"), n |-> 2 ]
                 ELSE [ s |-> Skip(s3, valueLen), n |-> 2 + valueLen ]

\* lines 2061-2083: the value of the key the type of the enclosing box
\* numbers
ParseMetaValue(f, s, type, valueLen) ==
    IF type > 0 /\ type <= s.metaMetadataCount
    THEN IF s.metaMetadataValue = 0 \/ type > Len(s.metaValues)
         THEN [ s |-> Fail([s EXCEPT !.ub = @ \cup {"null_dereference"}], "SIGSEGV"),
                n |-> 2 ]
         ELSE LET value == IF CanRead(f, s, valueLen)
                           THEN SubSeq(f, s.pos + 1, s.pos + valueLen) ELSE <<>>
                  s1 == AllocData([s EXCEPT !.metaValues[type] = Ptr(s)],
                                  "metaMetadataValue[]", value)
              IN  IF ~CanRead(f, s1, valueLen) THEN [ s |-> Fail(s1, "EIO"), n |-> 2 ]
                  ELSE [ s |-> Skip(s1, valueLen), n |-> 2 + valueLen ]
    ELSE [ s |-> s, n |-> 2 ]

\* mp4_demux_parse_meta_data for the data box item: 9 bytes or more, which
\* is 3 words or more
ParseMetaData(f, s, item, maxBytes) ==
    IF ~(maxBytes >= 3) THEN [ s |-> Fail(s, "EINVAL"), n |-> 0 ]
    ELSE IF ~CanRead(f, s, 2) THEN [ s |-> Fail(s, "EIO"), n |-> 0 ]
    ELSE LET clazz == Word(f, s)
             valueLen == (maxBytes - 2) % U32
             type == TypeOf(s, ParentOf(s, item))
             r == IF clazz # MP4_METADATA_CLASS_UTF8 THEN [ s |-> Skip(s, 2), n |-> 2 ]
                  ELSE IF IsTagType(type) THEN ParseUdtaTag(f, Skip(s, 2), type, valueLen)
                  ELSE ParseMetaValue(f, Skip(s, 2), type, valueLen)
         IN  IF r.s.ret # "OK" THEN r ELSE SkipRest(r.s, r.n, maxBytes)

-----------------------------------------------------------------------------
(* mp4_demux_count_ilst_sub_box and mp4_demux_parse_children *)

\* lines 1861-1896: the loop over the children of a udta ilst.  A failure
\* returns at once, with the file position where the failure found it
RECURSIVE CountIlstLoop(_, _, _, _, _)
CountIlstLoop(f, s, maxBytes, totalReadBytes, count) ==
    IF ~(totalReadBytes + 2 <= maxBytes)
    THEN [ s |-> s, count |-> count, total |-> totalReadBytes ]
    ELSE IF ~CanRead(f, s, 2) THEN [ s |-> Fail(s, "EIO"), count |-> 0, total |-> 0 ]
    ELSE LET size == Word(f, s)
             s1 == Skip(s, 2)
             large == size = 1
             realBoxSize == IF large /\ CanRead(f, s1, 2)
                            THEN ToOff(f[s1.pos + 1] * U32 + f[s1.pos + 2])
                            ELSE size
             s2 == IF large THEN Skip(s1, 2) ELSE s1
             boxReadBytes == IF large THEN 4 ELSE 2
         IN  IF size = 0 THEN [ s |-> Fail(s1, "ENOSYS"), count |-> 0, total |-> 0 ]
             ELSE IF large /\ ~(maxBytes >= 2 + 4)
             THEN [ s |-> Fail(s1, "EINVAL"), count |-> 0, total |-> 0 ]
             ELSE IF large /\ ~CanRead(f, s1, 2)
             THEN [ s |-> Fail(s1, "EIO"), count |-> 0, total |-> 0 ]
             ELSE IF boxReadBytes < realBoxSize /\ ~CanSeek(s2, realBoxSize - boxReadBytes)
             THEN [ s |-> Fail(s2, "EINVAL"), count |-> 0, total |-> 0 ]
             ELSE CountIlstLoop(f,
                      IF boxReadBytes < realBoxSize
                      THEN Skip(s2, realBoxSize - boxReadBytes) ELSE s2,
                      maxBytes, ToOff(totalReadBytes + realBoxSize), count + 1)

\* mp4_demux_count_ilst_sub_box: the count, or the negative errno, which the
\* caller stores in an unsigned int
CountIlstSubBox(f, s, maxBytes) ==
    IF ~(maxBytes >= 2) THEN [ s |-> s, count |-> -1 ]
    ELSE Once({ IF r.s.ret # "OK" THEN [ s |-> [r.s EXCEPT !.ret = "OK"], count |-> -1 ]
                ELSE IF ~CanSeek(r.s, 0 - r.total)
                THEN [ s |-> r.s, count |-> -1 ]
                ELSE [ s |-> Skip(r.s, 0 - r.total), count |-> r.count ] :
                r \in { CountIlstLoop(f, s, maxBytes, 0, 0) } })

\* lines 2440-2464: the tables of a udta ilst.  calloc of the count a
\* negative errno converts to succeeds or not (callocFails)
AllocUdtaTables(f, s, maxBytes, callocFails) ==
    Once({
      LET count == c.count % U32
          s1 == [c.s EXCEPT !.udtaMetadataCount = count]
      IN  IF count = 0 THEN s1
          ELSE IF c.count < 0 /\ callocFails THEN Fail(s1, "ENOMEM")
          ELSE LET s2 == Alloc([s1 EXCEPT !.udtaMetadataKey = Ptr(s1),
                                          !.udtaKeys = [k \in 1..count |-> 0]],
                               "udtaMetadataKey")
               IN  Alloc([s2 EXCEPT !.udtaMetadataValue = Ptr(s2),
                                    !.udtaValues = [k \in 1..count |-> 0],
                                    !.udtaMetadataParseIdx = 0],
                         "udtaMetadataValue") :
      c \in { CountIlstSubBox(f, s, maxBytes) } })

Containers ==
    { MP4_MOVIE_BOX, MP4_USER_DATA_BOX, MP4_MEDIA_BOX, MP4_MEDIA_INFORMATION_BOX,
      MP4_SAMPLE_TABLE_BOX }

RECURSIVE ParseChildren(_, _, _, _, _, _, _)

\* the default case, had it no look at the parent: every box of a type
\* without a case read as a box of boxes
ParseDefaultAsContainer(f, s, item, parent, rem, track, u) ==
    Once({ ParseChildren(f, s2, item, rem, track, 0, u) : s2 \in {s} })

\* lines 2504-2515, the default case of the switch: a box of a type the
\* walk has no case for is a box of boxes when its parent is an ilst, and is
\* not read otherwise
ParseDefault(f, s, item, parent, rem, track, u) ==
    IF TypeOf(s, parent) = MP4_ILST_BOX
    THEN Once({ ParseChildren(f, s2, item, rem, track, 0, u) : s2 \in {s} })
    ELSE [ s |-> s, n |-> 0 ]

\* lines 2218-2516: the switch on the type of the box item, whose parent is
\* parent and whose payload is rem words.  u holds what the environment and
\* undefined behaviour decide
ParsePayload(f, s, item, parent, rem, track, u) ==
    LET type == TypeOf(s, item)
        ptype == TypeOf(s, parent)
        inUdta == parent # 0 /\ TypeOf(s, ParentOf(s, parent)) = MP4_USER_DATA_BOX
        nothing == [ s |-> s, n |-> 0 ]
        children(s1, max, tk) ==
            Once({ ParseChildren(f, s2, item, max, tk, 0, u) : s2 \in {s1} })
    IN  CASE type = MP4_UUID ->
               IF ~(rem % U32 >= 4) THEN [ s |-> Fail(s, "EINVAL"), n |-> 0 ]
               ELSE IF ~CanRead(f, s, 4) THEN [ s |-> Fail(s, "EIO"), n |-> 0 ]
               ELSE [ s |-> Skip(s, 4), n |-> 4 ]
          [] type \in Containers -> children(s, rem, track)
          [] type = MP4_TRACK_BOX ->
               children(Alloc([s EXCEPT !.tks = Append(@, WalkTrack(Ptr(s)))], "track"),
                        rem, Len(s.tks) + 1)
          [] type = MP4_SYNC_SAMPLE_BOX -> ParseStss(f, s, rem, track)
          [] type = MP4_META_BOX /\ ptype = MP4_USER_DATA_BOX ->
               IF ~(rem >= 1) THEN [ s |-> Fail(s, "EINVAL"), n |-> 0 ]
               ELSE IF ~CanRead(f, s, 1) THEN [ s |-> Fail(s, "EIO"), n |-> 0 ]
               ELSE Once({ [ s |-> c.s, n |-> 1 + c.n ] :
                           c \in { children(Skip(s, 1), rem - 1, track) } })
          [] type = MP4_META_BOX /\ ptype = MP4_MOVIE_BOX -> children(s, rem, track)
          [] type = MP4_META_BOX /\ ptype \notin {MP4_USER_DATA_BOX, MP4_MOVIE_BOX} ->
               nothing
          [] type = MP4_ILST_BOX /\ inUdta ->
               Once({ IF s1.ret # "OK" THEN [ s |-> s1, n |-> 0 ]
                      ELSE children(s1, rem, track) :
                      s1 \in { AllocUdtaTables(f, s, rem, u.callocFails) } })
          [] type = MP4_ILST_BOX /\ ~inUdta -> children(s, rem, track)
          [] type = MP4_DATA_BOX -> ParseMetaData(f, s, item, rem)
          [] type = MP4_KEYS_BOX /\ ptype = MP4_META_BOX -> ParseMetaKeys(f, s, rem)
          [] type = MP4_KEYS_BOX /\ ptype # MP4_META_BOX -> nothing
          [] OTHER -> ParseDefault(f, s, item, parent, rem, track, u)

\* lines 2198-2216 and 2518-2534 for the box whose header of hdr words has
\* been read: the size check, the tree node, the payload, the skip of the
\* rest.  The sum of the size check overflows for the largest sizes, and the
\* comparison then yields either answer (u.fits)
ParseBox(f, s, parent, maxBytes, track, parentReadBytes, u, start, type, hdr, realBoxSize) ==
    LET overflow == parentReadBytes + realBoxSize > OffMax
        s0 == IF overflow THEN [s EXCEPT !.ub = @ \cup {"signed_overflow"}] ELSE s
        fits == IF overflow THEN u.fits ELSE maxBytes >= parentReadBytes + realBoxSize
        item == Len(s.nodes) + 1
        s1 == Alloc([s0 EXCEPT !.nodes = Append(@,
                        [ start |-> start, size |-> realBoxSize, type |-> type,
                          parent |-> parent, ptr |-> Ptr(s) ])],
                    "item")
    IN  IF ~fits THEN [ s |-> Fail(s0, "EINVAL"), n |-> parentReadBytes ]
        ELSE Once({
          LET boxReadBytes == hdr + r.n
          IN  IF r.s.ret # "OK" THEN [ s |-> r.s, n |-> parentReadBytes ]
              ELSE IF realBoxSize < boxReadBytes
                      \/ ~CanSeek(r.s, realBoxSize - boxReadBytes)
              THEN [ s |-> Fail(r.s, "EIO"), n |-> parentReadBytes ]
              ELSE [ s |-> Skip(r.s, realBoxSize - boxReadBytes),
                     n |-> ToOff(parentReadBytes + realBoxSize) ] :
          r \in { ParsePayload(f, s1, item, parent, realBoxSize - hdr, track, u) } })

\* mp4_demux_parse_children from parentReadBytes on: the loop of lines
\* 2153-2535.  feof is not set before a read has failed, and a failed read
\* ends the walk.  demux->readBytes is 0 during the walk, so a box of size 0
\* gets the size of the file
ParseChildren(f, s, parent, maxBytes, track, parentReadBytes, u) ==
    IF ~(parentReadBytes + 2 < maxBytes) THEN [ s |-> s, n |-> parentReadBytes ]
    ELSE IF ~CanRead(f, s, 2) THEN [ s |-> Fail(s, "EIO"), n |-> parentReadBytes ]
    ELSE LET size == Word(f, s)
             type == f[s.pos + 2]
             s1 == Skip(s, 2)
             hdr == IF size = 1 THEN 4 ELSE 2
             realBoxSize == IF size = 1 /\ CanRead(f, s1, 2)
                            THEN ToOff(f[s1.pos + 1] * U32 + f[s1.pos + 2])
                            ELSE IF size = 0 THEN Len(f) ELSE size
         IN  IF size = 1 /\ ~(maxBytes >= parentReadBytes + 4)
             THEN [ s |-> Fail(s1, "EINVAL"), n |-> parentReadBytes ]
             ELSE IF size = 1 /\ ~CanRead(f, s1, 2)
             THEN [ s |-> Fail(s1, "EIO"), n |-> parentReadBytes ]
             ELSE Once({
               IF b.s.ret # "OK" \/ size = 0 THEN b
               ELSE ParseChildren(f, b.s, parent, maxBytes, track, b.n, u) :
               b \in { ParseBox(f, Skip(s, hdr), parent, maxBytes, track,
                                parentReadBytes, u, s.pos, type, hdr, realBoxSize) } })

-----------------------------------------------------------------------------
(* mp4_demux_build_metadata, mp4_demux_close and mp4_demux_open *)

\* strlen(p) > 0 for a pointer p that is not NULL
NonEmpty(s, p) == p # 0 /\ s.heap[p].data # <<>> /\ s.heap[p].data[1] # 0

\* the key and value pairs build_metadata takes from two tables
MetadataPairs(s, keys, values) ==
    SelectSeq([i \in 1..Len(keys) |->
                  IF NonEmpty(s, keys[i]) /\ NonEmpty(s, values[i])
                  THEN << s.heap[keys[i]].data, s.heap[values[i]].data >>
                  ELSE <<>>],
              LAMBDA p : p # <<>>)

\* mp4_demux_build_metadata: the final tables, meta before udta.  calloc of
\* no element returns a pointer, as that of glibc does
BuildMetadata(s) ==
    [ s |-> Alloc(Alloc(s, "finalMetadataKey"), "finalMetadataValue"),
      final |-> MetadataPairs(s, s.metaKeys, s.metaValues)
                \o MetadataPairs(s, s.udtaKeys, s.udtaValues) ]

\* free(p)
Free(heap, p) == IF p = 0 THEN heap ELSE [heap EXCEPT ![p].freed = @ + 1]

\* free of every pointer of a sequence, one after the other
FreeAll(heap, ptrs) ==
    [p \in 1..Len(heap) |->
        [heap[p] EXCEPT !.freed = @ + Cardinality({i \in 1..Len(ptrs) : ptrs[i] = p})]]

\* the allocations of a kind, as pointers
OfKind(s, kind) ==
    SelectSeq([p \in 1..Len(s.heap) |-> p], LAMBDA p : s.heap[p].kind = kind)

\* lines 2979-2982 and 2985-2988: for (i = 0; i < count; i++) free(key[i]),
\* free(value[i]), over tables of the length given.  Without a table, or
\* beyond it, the loop reads what is no pointer of the demux
FreeTable(heap, count, table, keys, values) ==
    IF count = 0 THEN [ heap |-> heap, ub |-> {} ]
    ELSE IF table = 0 THEN [ heap |-> heap, ub |-> {"null_dereference"} ]
    ELSE IF count > Len(keys)
    THEN [ heap |-> FreeAll(FreeAll(heap, keys), values), ub |-> {"table_out_of_bounds"} ]
    ELSE [ heap |-> FreeAll(FreeAll(heap, keys), values), ub |-> {} ]

\* mp4_demux_close: the box tree, the tracks (mp4_demux_free_tracks has no
\* free of syncSampleEntries), the tables of udta and of meta walked by
\* their counts, the final tables, the demux.  A walk that dereferences NULL
\* ends the process, and nothing after it is freed
CloseOp(s) ==
    LET h1 == FreeAll(FreeAll(s.heap, OfKind(s, "item")), OfKind(s, "track"))
        u == FreeTable(h1, s.udtaMetadataCount, s.udtaMetadataKey, s.udtaKeys, s.udtaValues)
        h2 == Free(Free(u.heap, s.udtaMetadataKey), s.udtaMetadataValue)
        m == FreeTable(h2, s.metaMetadataCount, s.metaMetadataKey, s.metaKeys, s.metaValues)
        h3 == Free(Free(m.heap, s.metaMetadataKey), s.metaMetadataValue)
        h4 == FreeAll(FreeAll(FreeAll(h3, OfKind(s, "finalMetadataKey")),
                              OfKind(s, "finalMetadataValue")), OfKind(s, "demux"))
    IN  IF "null_dereference" \in u.ub THEN [s EXCEPT !.heap = u.heap, !.ub = u.ub]
        ELSE IF "null_dereference" \in m.ub
        THEN [s EXCEPT !.heap = m.heap, !.ub = u.ub \cup m.ub]
        ELSE [s EXCEPT !.heap = h4, !.ub = u.ub \cup m.ub]

\* the tracks of the walk as mp4_demux_build_tracks finds them: the list
\* grows at its head (lines 2271-2274)
RECURSIVE Reverse(_)
Reverse(q) == IF q = <<>> THEN <<>> ELSE Append(Reverse(Tail(q)), Head(q))

WalkTracks(s) ==
    Reverse([t \in 1..Len(s.tks) |->
        [EmptyTrack EXCEPT
            !.hasSyncSampleEntries = s.tks[t].syncSampleEntries # 0,
            !.syncSampleEntries = s.tks[t].stss]])

\* lines 2896-2936 of mp4_demux_open: the demux and the box walk of the file
OpenWalk(f, u) ==
    ParseChildren(f, Alloc(Walk0, "demux"), 0, Len(f), 0, 0, u).s

\* what the caller of a successful open can read back: the tracks and the
\* metadata
Outputs(s) == [ tracks |-> WalkTracks(s), metadata |-> BuildMetadata(s).final ]

-----------------------------------------------------------------------------
(* The files of SpecBox: a movie of nested boxes, with one box of a type the *)
(* walk does not know put in somewhere, or with the size of one box changed  *)

\* a box of the file: its name in the model, its type, the words of its own
\* payload, its children, the form of its header and what is written in the
\* size field ("true", or a change)
BoxOf(name, type, pre, kids) ==
    [ name |-> name, type |-> type, pre |-> pre, kids |-> kids,
      large |-> FALSE, size |-> "true" ]

\* moov / trak / mdia / minf / stbl / stss with the sync samples 1 and 3
TrakMovie ==
    BoxOf("moov", MP4_MOVIE_BOX, <<>>, <<
      BoxOf("trak", MP4_TRACK_BOX, <<>>, <<
        BoxOf("mdia", MP4_MEDIA_BOX, <<>>, <<
          BoxOf("minf", MP4_MEDIA_INFORMATION_BOX, <<>>, <<
            BoxOf("stbl", MP4_SAMPLE_TABLE_BOX, <<>>, <<
              BoxOf("stss", MP4_SYNC_SAMPLE_BOX, <<0, 2, 1, 3>>, <<>>) >>) >>) >>) >>) >>)

\* a data box with a UTF-8 value of one word
DataBox(name, value) ==
    BoxOf(name, MP4_DATA_BOX, <<MP4_METADATA_CLASS_UTF8, 0, value>>, <<>>)

\* moov / udta / meta / ilst / a box of the type given / data boxes
UdtaTagMovie(type, datas) ==
    BoxOf("moov", MP4_MOVIE_BOX, <<>>, <<
      BoxOf("udta", MP4_USER_DATA_BOX, <<>>, <<
        BoxOf("meta", MP4_META_BOX, <<0>>, <<
          BoxOf("ilst", MP4_ILST_BOX, <<>>, <<
            BoxOf("tag", type, <<>>, datas) >>) >>) >>) >>)

\* moov / udta / meta / ilst / title tag / data with a UTF-8 value of one word
UdtaMovie == UdtaTagMovie(MP4_METADATA_TAG_TYPE_TITLE, << DataBox("data", 7) >>)

\* the same with two data boxes in the title tag
TwinMovie ==
    UdtaTagMovie(TagOf(CopyrightSign, MP4_METADATA_TAG_TYPE_TITLE),
                 << DataBox("data", 7), DataBox("data2", 5) >>)

\* the same with every tag of lines 109-117 behind the copyright sign (t =
\* 1..9), with the tag aART (10), and with a tag of no udta key (11)
TaggedTypes ==
    << TagOf(CopyrightSign, MP4_METADATA_TAG_TYPE_ARTIST),
       TagOf(CopyrightSign, MP4_METADATA_TAG_TYPE_TITLE),
       TagOf(CopyrightSign, MP4_METADATA_TAG_TYPE_DATE),
       TagOf(CopyrightSign, MP4_METADATA_TAG_TYPE_COMMENT),
       TagOf(CopyrightSign, MP4_METADATA_TAG_TYPE_COPYRIGHT),
       TagOf(CopyrightSign, MP4_METADATA_TAG_TYPE_MAKER),
       TagOf(CopyrightSign, MP4_METADATA_TAG_TYPE_MODEL),
       TagOf(CopyrightSign, MP4_METADATA_TAG_TYPE_VERSION),
       TagOf(CopyrightSign, MP4_METADATA_TAG_TYPE_ENCODER),
       TagOf(LetterA, MP4_METADATA_TAG_TYPE_ARTIST),
       TagOf(CopyrightSign, FreeBox) >>
TaggedMovie(t) == UdtaTagMovie(TaggedTypes[t], << DataBox("data", 7) >>)

\* moov / meta / keys with one key of one word, and ilst / item 1 / data
MetaMovie ==
    BoxOf("moov", MP4_MOVIE_BOX, <<>>, <<
      BoxOf("meta", MP4_META_BOX, <<>>, <<
        BoxOf("keys", MP4_KEYS_BOX, <<0, 1, 3, 9, 8>>, <<>>),
        BoxOf("ilst", MP4_ILST_BOX, <<>>, <<
          BoxOf("tag", 1, <<>>, <<
            BoxOf("data", MP4_DATA_BOX, <<MP4_METADATA_CLASS_UTF8, 0, 6>>, <<>>)
          >>) >>) >>) >>)

\* moov / meta / ilst / title tag / data: a tag of udta where no udta is
TagMovie ==
    BoxOf("moov", MP4_MOVIE_BOX, <<>>, <<
      BoxOf("meta", MP4_META_BOX, <<>>, <<
        BoxOf("ilst", MP4_ILST_BOX, <<>>, <<
          BoxOf("tag", MP4_METADATA_TAG_TYPE_TITLE, <<>>, <<
            BoxOf("data", MP4_DATA_BOX, <<MP4_METADATA_CLASS_UTF8, 0, 7>>, <<>>)
          >>) >>) >>) >>)

\* moov / meta / keys: three keys counted, one key present
KeysMovie ==
    BoxOf("moov", MP4_MOVIE_BOX, <<>>, <<
      BoxOf("meta", MP4_META_BOX, <<>>, <<
        BoxOf("keys", MP4_KEYS_BOX, <<0, 3, 3, 9, 8>>, <<>>) >>) >>)

\* moov / trak / mdia / minf / stbl / stss with the entries 3 and 0
SyncMovie ==
    BoxOf("moov", MP4_MOVIE_BOX, <<>>, <<
      BoxOf("trak", MP4_TRACK_BOX, <<>>, <<
        BoxOf("mdia", MP4_MEDIA_BOX, <<>>, <<
          BoxOf("minf", MP4_MEDIA_INFORMATION_BOX, <<>>, <<
            BoxOf("stbl", MP4_SAMPLE_TABLE_BOX, <<>>, <<
              BoxOf("stss", MP4_SYNC_SAMPLE_BOX, <<0, 2, 3, 0>>, <<>>) >>) >>) >>) >>) >>)

Movies ==
    [ trak |-> TrakMovie, udta |-> UdtaMovie, meta |-> MetaMovie, tag |-> TagMovie,
      keys |-> KeysMovie, sync |-> SyncMovie, twin |-> TwinMovie,
      t1 |-> TaggedMovie(1), t2 |-> TaggedMovie(2), t3 |-> TaggedMovie(3),
      t4 |-> TaggedMovie(4), t5 |-> TaggedMovie(5), t6 |-> TaggedMovie(6),
      t7 |-> TaggedMovie(7), t8 |-> TaggedMovie(8), t9 |-> TaggedMovie(9),
      aART |-> TaggedMovie(10), other |-> TaggedMovie(11) ]

\* the movies a box is put into or changed in; the others are opened as
\* they are
PlanMovies == {"trak", "udta", "meta", "tag", "keys", "sync"}

\* the payloads of the box put in: none, zeros, what reads as a box too
\* large for any file, what reads as a box
Payloads == { <<>>, <<0, 0, 0>>, <<U32 - 1, MP4_MOVIE_BOX, 0>>, <<3, FreeBox, 0>> }

NoPlan == "none"

RECURSIVE Planned(_, _)
\* the children of box name, with the box of the plan put in
PlannedKids(name, kids, plan) ==
    LET new == [BoxOf("new", FreeBox, plan.payload, <<>>) EXCEPT
                    !.large = plan.large,
                    !.size = IF plan.changed = "new" THEN plan.size ELSE "true"]
    IN  Once({ IF plan.parent = name
               THEN SubSeq(own, 1, plan.at) \o << new >>
                    \o SubSeq(own, plan.at + 1, Len(own))
               ELSE own :
               own \in { [i \in 1..Len(kids) |-> Planned(kids[i], plan)] } })

\* box b as the plan has it
Planned(b, plan) ==
    Once({ [c EXCEPT !.kids = PlannedKids(c.name, c.kids, plan),
                     !.size = IF plan.changed = c.name THEN plan.size ELSE "true"] :
           c \in {b} })

RECURSIVE Ser(_)
RECURSIVE SerAll(_)
SerAll(kids) ==
    IF kids = <<>> THEN <<>>
    ELSE Once({ Ser(b) \o SerAll(rest) : b \in {Head(kids)}, rest \in {Tail(kids)} })

\* the words of a box: size, type, largesize when size is 1, payload
Ser(b) ==
    Once({
      LET true == (IF b.large THEN 4 ELSE 2) + Len(body)
      IN  IF b.size = "true"
          THEN (IF b.large THEN << 1, b.type, 0, true >> ELSE << true, b.type >>) \o body
          ELSE IF b.size = "one more" THEN << true + 1, b.type >> \o body
          ELSE IF b.size = "largest" THEN << U32 - 1, b.type >> \o body
          ELSE IF b.size = "one less" THEN << true - 1, b.type >> \o body
          ELSE IF b.size = "zero" THEN << 0, b.type >> \o body
          ELSE IF b.size = "largest off_t"
          THEN << 1, b.type, U32 \div 2 - 1, U32 - 1 >> \o body
          ELSE << 1, b.type, U32 - 1, U32 - 1 >> \o body :
      body \in { b.pre \o SerAll(b.kids) } })

Sizes == { "one more", "one less", "largest", "largest off_t", "largest uint64" }

\* the words of the file of a plan
FileOf(plan) ==
    Once({ SerAll(kids) : kids \in { PlannedKids("root", << Movies[plan.movie] >>, plan) } })

\* the boxes a box can be put into or changed, and the number of children
\* each has
Names(movie) ==
    IF movie \in {"trak", "sync"} THEN {"moov", "trak", "mdia", "minf", "stbl", "stss"}
    ELSE IF movie = "udta" THEN {"moov", "udta", "meta", "ilst", "tag", "data"}
    ELSE IF movie = "meta" THEN {"moov", "meta", "keys", "ilst", "tag", "data"}
    ELSE IF movie = "tag" THEN {"moov", "meta", "ilst", "tag", "data"}
    ELSE {"moov", "meta", "keys"}

KidsOf(movie, name) ==
    IF name \in {"stss", "data", "keys"} THEN 0
    ELSE IF movie = "meta" /\ name = "meta" THEN 2
    ELSE 1

Parents(movie) == (Names(movie) \cup {"root"}) \ {"stss", "data", "keys"}

\* the movies as they are; one box put in; one box put in with its size
\* changed; the size of one box of the movie changed; one box put in, or one
\* box of the movie, with the size 0 in its header
PlainPlan(mv) ==
    [ movie |-> mv, parent |-> NoPlan, at |-> 0, payload |-> <<>>,
      large |-> FALSE, changed |-> NoPlan, size |-> "true" ]

Plans ==
    LET plain(mv) == PlainPlan(mv)
    IN  { plain(mv) : mv \in DOMAIN Movies }
        \cup UNION { UNION { UNION {
               { [plain(mv) EXCEPT !.parent = nm, !.at = k, !.payload = pl, !.large = lg] :
                   pl \in Payloads, lg \in BOOLEAN }
               \cup { [plain(mv) EXCEPT !.parent = nm, !.at = k,
                                        !.changed = "new", !.size = sz] : sz \in Sizes } :
               k \in 0..KidsOf(mv, nm) } : nm \in Parents(mv) } : mv \in PlanMovies }
        \cup UNION { { [plain(mv) EXCEPT !.changed = ch, !.size = sz] :
                         ch \in Names(mv), sz \in Sizes } : mv \in PlanMovies }
        \cup UNION { UNION { UNION {
               { [plain(mv) EXCEPT !.parent = nm, !.at = k, !.payload = pl,
                                   !.changed = "new", !.size = "zero"] :
                   pl \in {<<>>, <<0, 0, 0>>} } :
               k \in 0..KidsOf(mv, nm) } : nm \in Parents(mv) } : mv \in PlanMovies }
        \cup UNION { { [plain(mv) EXCEPT !.changed = ch, !.size = "zero"] :
                         ch \in Names(mv) } : mv \in PlanMovies }

\* before mp4_demux_open
InitBox ==
    /\ pc = "start"
    /\ \E plan \in Plans : \E file \in { FileOf(plan) } :
         /\ box = [ plan |-> plan, file |-> file, walk |-> Walk0, final |-> <<>> ]
         /\ fileSize = Len(file)
    /\ chapSz = 1
    /\ tracks = <<>>
    /\ err = "OK"
    /\ ub = {}
    /\ chapters = <<>>
    /\ last = NoCall
    /\ mvhd = NoMvhd

\* what the environment and undefined behaviour decide during a walk
WalkChoices == [ fits : BOOLEAN, callocFails : BOOLEAN ]
WalkDefault == [ fits |-> FALSE, callocFails |-> FALSE ]

\* mp4_demux_open.  A failed walk or build is cleaned up by mp4_demux_close
\* and open returns NULL; a NULL pointer dereferenced in the walk or in the
\* cleanup ends the process, other undefined behaviour may
Open ==
    /\ pc = "start"
    /\ \E u \in IF OpenWalk(box.file, WalkDefault).heap = OpenWalk(box.file, [fits |-> TRUE, callocFails |-> TRUE]).heap
                   /\ OpenWalk(box.file, WalkDefault).ub = {}
                THEN {WalkDefault} ELSE WalkChoices :
       \E w \in {OpenWalk(box.file, u)} :
       \E b \in {BuildTracksOp(WalkTracks(w), fileSize, chapSz, 0)} :
         LET ok == w.ret = "OK" /\ b.ret = "OK"
             m == BuildMetadata(w)
             c == CloseOp(w)
         IN  /\ tracks' = IF w.ret = "OK" THEN b.tks ELSE tracks
             /\ chapters' = IF w.ret = "OK" THEN b.chapters ELSE chapters
             /\ err' = IF ok THEN "OK" ELSE "EIO"
             /\ last' = [ op |-> "open", walk |-> w.ret, build |-> b.ret ]
             /\ \/ /\ ok
                   /\ box' = [box EXCEPT !.walk = m.s, !.final = m.final]
                   /\ ub' = w.ub
                   /\ pc' = "opened"
                \/ /\ w.ret = "SIGSEGV" \/ (ok /\ "udta_out_of_bounds" \in w.ub)
                   /\ box' = [box EXCEPT !.walk = w]
                   /\ ub' = w.ub
                   /\ pc' = "crashed"
                \/ /\ ~ok /\ w.ret # "SIGSEGV"
                   /\ box' = [box EXCEPT !.walk = c]
                   /\ ub' = w.ub \cup c.ub
                   /\ pc' \in Outcomes(c.ub, "failed")
    /\ UNCHANGED <<fileSize, chapSz, mvhd>>

\* mp4_demux_close of an open demux
Close ==
    /\ pc = "opened"
    /\ \E c \in {CloseOp(box.walk)} :
         /\ box' = [box EXCEPT !.walk = c]
         /\ ub' = c.ub
         /\ last' = [ op |-> "close" ]
         /\ pc' \in Outcomes(c.ub, "closed")
    /\ UNCHANGED <<fileSize, chapSz, tracks, err, chapters, mvhd>>

NextBox == Open \/ Close

SpecBox == InitBox /\ [][NextBox]_vars

-----------------------------------------------------------------------------
(* The sample tables as the format defines them, for the claims *)

\* the chunks of 1..chunkCount in the run of stsc entry k:
\* [first_chunk_k, first_chunk_{k+1}), and [first_chunk_last, chunkCount]
ChunksOfRun(tk, k) ==
    LET stsc == tk.sampleToChunkEntries IN
    { c \in 1..tk.chunkCount :
        /\ stsc[k].firstChunk <= c
        /\ k < Len(stsc) => c < stsc[k + 1].firstChunk }

\* the samples chunk c holds
SamplesInChunk(tk, c) ==
    LET stsc == tk.sampleToChunkEntries IN
    SumSeq([k \in 1..Len(stsc) |->
               IF c \in ChunksOfRun(tk, k) THEN stsc[k].samplesPerChunk ELSE 0])

\* the samples all chunks before chunk c hold
SamplesBeforeChunk(tk, c) == SumSeq([d \in 1..(c - 1) |-> SamplesInChunk(tk, d)])

\* the number of samples the stsc runs give over all chunkCount chunks
ExpandedSampleCount(tk) == SamplesBeforeChunk(tk, tk.chunkCount + 1)

\* the sum of the stts run lengths, as an integer
SttsTotal(tk) ==
    SumSeq([k \in 1..Len(tk.timeToSampleEntries) |->
               tk.timeToSampleEntries[k].sampleCount])

\* first_chunk starts at 1, ascends strictly and stays within chunkCount
WellFormedStsc(tk) ==
    LET stsc == tk.sampleToChunkEntries IN
    /\ Len(stsc) >= 1
    /\ stsc[1].firstChunk = 1
    /\ \A k \in 1..Len(stsc) : stsc[k].firstChunk <= tk.chunkCount
    /\ \A k \in 1..(Len(stsc) - 1) : stsc[k].firstChunk < stsc[k + 1].firstChunk

\* the chunk (1-based) that holds sample i (0-based)
ChunkOfSample(tk, i) ==
    CHOOSE c \in 1..tk.chunkCount :
        /\ SamplesBeforeChunk(tk, c) <= i
        /\ i < SamplesBeforeChunk(tk, c) + SamplesInChunk(tk, c)

\* chunk_offset[c] plus the sizes of the samples before i in the same chunk
ExpectedSampleOffset(tk, i) ==
    LET c == ChunkOfSample(tk, i)
        first == SamplesBeforeChunk(tk, c)
    IN  tk.chunkOffset[c]
        + SumSeq([j \in 1..(i - first) |-> At(tk.sampleSize, first + j - 1)])

TrackIds == 1..Len(tracks)

-----------------------------------------------------------------------------
(* Claims on the sample-index builder, under SpecBuild *)

\* C1: in every track of an opened file the stsc expansion over all chunks
\* and the sum of the stts run lengths both equal stsz.sample_count, as
\* integers (a mismatch that only agrees modulo 2^32 makes open fail).
\* The code compares uint32 values: TLC finds an opened track whose counts
\* differ.
C1_CountsAgree ==
    pc = "opened" =>
        \A t \in TrackIds :
            /\ ExpandedSampleCount(tracks[t]) = tracks[t].sampleCount
            /\ SttsTotal(tracks[t]) = tracks[t].sampleCount

\* C2: for a well-formed stsc table every sample offset of an opened track
\* is its chunk's offset plus the sizes of the samples before it in the chunk
C2_SampleOffsets ==
    pc = "opened" =>
        \A t \in TrackIds :
            WellFormedStsc(tracks[t]) =>
                \A i \in 0..(tracks[t].sampleCount - 1) :
                    At(tracks[t].sampleOffset, i) = ExpectedSampleOffset(tracks[t], i)

\* C2 witness: an opened track with two stsc runs, whose last sample lies
\* behind another sample of its chunk, in the second chunk or later
C2_Witness ==
    /\ pc = "opened" /\ ub = {}
    /\ \E t \in TrackIds :
         /\ WellFormedStsc(tracks[t])
         /\ Len(tracks[t].sampleToChunkEntries) = 2
         /\ tracks[t].sampleCount = MaxSamples
         /\ ChunkOfSample(tracks[t], MaxSamples - 1) > 1
         /\ At(tracks[t].sampleOffset, MaxSamples - 1)
              > tracks[t].chunkOffset[ChunkOfSample(tracks[t], MaxSamples - 1)]

\* C3: every sample of an opened file ends inside the file (stated for the
\* opens that executed no undefined behaviour).  The code never compares an
\* offset with the file size: TLC finds an opened track with a sample beyond
\* the end.
C3_SamplesInsideFile ==
    pc = "opened" /\ ub = {} =>
        \A t \in TrackIds :
            \A i \in 0..(tracks[t].sampleCount - 1) :
                At(tracks[t].sampleOffset, i) + At(tracks[t].sampleSize, i) <= fileSize

-----------------------------------------------------------------------------
(* The calls on an open demuxer, as the claims read them *)

\* the track the last next_sample call named
LastTrack == FindTrackById(tracks, last.track_id)

\* sample i is a sync sample of the track: the track has no stss table, or the
\* table holds the 1-based number of the sample
IsSyncOf(tk, i) ==
    ~tk.hasSyncSampleEntries
    \/ \E k \in 1..Len(tk.syncSampleEntries) : tk.syncSampleEntries[k] = i + 1

\* ceil(t * timescale / 1000000)
CeilTicks(time_offset, timescale) == (time_offset * timescale + 999999) \div 1000000

StrictlyIncreasing(a) == \A i \in 1..(Len(a) - 1) : a[i] < a[i + 1]

\* the greatest sample at or before ts
GreatestAtOrBefore(tk, ts) ==
    CHOOSE i \in 0..(tk.sampleCount - 1) :
        /\ At(tk.sampleDecodingTime, i) <= ts
        /\ \A j \in (i + 1)..(tk.sampleCount - 1) : At(tk.sampleDecodingTime, j) > ts

\* the greatest sync sample at or below i
GreatestSyncAtOrBelow(tk, i) ==
    CHOOSE s \in 0..i : IsSyncOf(tk, s) /\ \A j \in (s + 1)..i : ~IsSyncOf(tk, j)

\* C5: a next_sample call on a track whose current_sample equals its
\* sample_count returns success with sample_size, metadata_size, sample_dts
\* and next_sample_dts all 0 and leaves every cursor where it was, so the
\* next call finds the same state and returns the same
C5_EndOfTrack ==
    (/\ last.op = "next_sample"
     /\ LastTrack # NoTrack
     /\ last.before[LastTrack] = tracks[LastTrack].sampleCount)
    => /\ last.ret = "OK"
       /\ last.sample = ZeroSample
       /\ Cursors(tracks) = last.before
       /\ ub = {}

\* C5 witness: a call with both buffers on a track of SeekSamples samples
\* that is at its end
C5_Witness ==
    /\ pc = "opened"
    /\ last.op = "next_sample"
    /\ LastTrack # NoTrack
    /\ tracks[LastTrack].sampleCount = SeekSamples
    /\ last.before[LastTrack] = SeekSamples
    /\ last.sample_buffer = BigBuf

C7_SeekSync ==
    (/\ pc = "opened" /\ last.op = "seek" /\ last.sync /\ last.ret = "OK"
     /\ "division_by_zero" \notin ub)
    => \A t \in TrackIds :
         tracks[t].type # "CHAPTERS"
         => LET tk == tracks[t]
                cur == tk.currentSample
                target == CeilTicks(last.time_offset, tk.timescale)
            IN  /\ cur < tk.sampleCount
                /\ At(tk.sampleDecodingTime, cur) <= target
                /\ \/ IsSyncOf(tk, cur)
                   \/ /\ cur = 0
                      /\ ~\E i \in 0..(tk.sampleCount - 1) :
                            IsSyncOf(tk, i) /\ At(tk.sampleDecodingTime, i) <= target

\* the tracks C8 speaks of, for the last seek: sought in, with a duration,
\* strictly increasing decode times, an ascending sync table and the target
\* not beyond the last sample
C8_Applies(t) ==
    LET tk == tracks[t] IN
    /\ last.op = "seek"
    /\ ~(tk.type = "CHAPTERS" \/ (tk.type = "METADATA" /\ tk.ref # NoTrack))
    /\ tk.duration # 0
    /\ tk.sampleCount > 0
    /\ StrictlyIncreasing(tk.sampleDecodingTime)
    /\ StrictlyIncreasing(tk.syncSampleEntries)
    /\ SeekTicks(last.time_offset, tk.timescale)
          <= At(tk.sampleDecodingTime, tk.sampleCount - 1)

\* C8: on such a track a seek that returns success leaves the cursor, without
\* sync, on the greatest sample at or before the target and, with sync, on
\* that sample when it is a sync sample and else on the greatest sync sample
\* below it, whatever duration and so the first guess is; and the seek of a
\* one-track movie returns success whenever that sample exists
C8_SeekTarget ==
    \A t \in TrackIds :
      C8_Applies(t)
      => LET tk == tracks[t]
             i == GreatestAtOrBefore(tk, SeekTicks(last.time_offset, tk.timescale))
             exists == ~last.sync \/ \E s \in 0..i : IsSyncOf(tk, s)
         IN  /\ last.ret = "OK"
                 => tk.currentSample =
                      IF last.sync THEN GreatestSyncAtOrBelow(tk, i) ELSE i
             /\ (Len(tracks) = 1 /\ exists) => last.ret = "OK"
             /\ ub = {}

\* C8 witness: sync samples 1, 3, 5, ..., a target at the fourth sample and a
\* first guess at the last sample; the cursor moved to the third sample
C8_Witness ==
    /\ pc = "opened"
    /\ Len(tracks) = 1
    /\ C8_Applies(1)
    /\ last.sync /\ last.ret = "OK"
    /\ tracks[1].syncSampleEntries = OddSync(SeekSamples).entries
    /\ tracks[1].duration = 1
    /\ SeekTicks(last.time_offset, tracks[1].timescale) = 3
    /\ tracks[1].currentSample = 2
    /\ last.before[1] # 2

-----------------------------------------------------------------------------
(* The claims on mp4_demux_open, the box walk and mp4_demux_close, stated    *)
(* over the behaviours of SpecBox                                            *)

\* the allocations of a demux that were not released exactly once
NotReleasedOnce(s) == { p \in 1..Len(s.heap) : s.heap[p].freed # 1 }

\* C4: an open that fails has released every allocation it made exactly once
\* when it returns, and its cleanup has walked no key and value table with an
\* entry count larger than the table that was allocated
C4_FailedOpenReleases ==
    (last.op = "open" /\ err # "OK" /\ last.walk # "SIGSEGV")
    => /\ pc = "failed"
       /\ NotReleasedOnce(box.walk) = {}
       /\ box.walk.ub \cap {"null_dereference", "table_out_of_bounds"} = {}

\* the words of the header of a box of the file
HeaderWords(b) == Len(Ser(b)) - Len(b.pre) - Len(SerAll(b.kids))

\* the boxes kids laid out from word start on, and the boxes in them: for
\* each its name, whether its size field is changed, where it starts and
\* how many words its parent has from there on
RECURSIVE Placed(_, _)
Placed(kids, start) ==
    LET before(i) == Len(SerAll(SubSeq(kids, 1, i - 1)))
    IN  { [ name |-> kids[i].name, size |-> kids[i].size,
            start |-> start + before(i),
            remaining |-> Len(SerAll(SubSeq(kids, i, Len(kids)))) ] :
          i \in 1..Len(kids) }
        \cup UNION { Placed(kids[i].kids,
                            start + before(i) + HeaderWords(kids[i]) + Len(kids[i].pre)) :
                     i \in 1..Len(kids) }

\* the boxes of the file of a plan
PlacedIn(plan) == Placed(PlannedKids("root", << Movies[plan.movie] >>, plan), 0)

\* the size the header at c.start of file f declares, as ISO/IEC 14496-12
\* reads it: the 32-bit size, the 64-bit largesize when that is 1, the rest
\* of the file when it is 0.  A largesize that is not inside the parent
\* declares more than any parent has
DeclaredSize(f, c) ==
    LET size == f[c.start + 1]
    IN  IF size = 1
        THEN IF c.remaining >= 4 THEN f[c.start + 3] * U32 + f[c.start + 4] ELSE S64
        ELSE IF size = 0 THEN Len(f) - c.start
        ELSE size

\* the box of the plan with a changed size declares more than its parent, or
\* the file, has left where it starts
Oversized(plan, f) ==
    \E c \in PlacedIn(plan) : c.size # "true" /\ DeclaredSize(f, c) > c.remaining

\* the extent of every node of a box tree lies inside the extent of its
\* parent (the file, for a top-level box), behind the extents of the
\* siblings before it
Nested(s, flen) ==
    /\ \A i \in 1..Len(s.nodes) :
         LET n == s.nodes[i]
             from == IF n.parent = 0 THEN 0 ELSE s.nodes[n.parent].start
             to == IF n.parent = 0 THEN flen
                   ELSE s.nodes[n.parent].start + s.nodes[n.parent].size
         IN  from <= n.start /\ n.start <= n.start + n.size /\ n.start + n.size <= to
    /\ \A i, j \in 1..Len(s.nodes) :
         (i < j /\ s.nodes[i].parent = s.nodes[j].parent)
         => s.nodes[i].start + s.nodes[i].size <= s.nodes[j].start

\* C9: a file with a box that declares more than its parent, or the file, has
\* left is not opened; and in the box tree of every opened file each box lies
\* inside its parent and behind the siblings before it
C9_OversizedBoxFails ==
    last.op = "open"
    => /\ Oversized(box.plan, box.file) => pc # "opened"
       /\ pc = "opened" => Nested(box.walk, Len(box.file))

\* the plan puts a box of a type without a case into the movie, with its
\* true size in its header
Inserted(plan) == plan.parent # NoPlan /\ plan.changed = NoPlan

\* the movie of a plan without that box: its file, its walk, its tracks
BaseFile(plan) == FileOf(PlainPlan(plan.movie))
BaseWalk(plan) == OpenWalk(BaseFile(plan), WalkDefault)
BaseBuild(plan) == BuildTracksOp(WalkTracks(BaseWalk(plan)), Len(BaseFile(plan)), 1, 0)

\* open of the movie without the box returns a demux
BaseOpens(plan) ==
    BaseWalk(plan).ret = "OK" /\ BaseWalk(plan).ub = {} /\ BaseBuild(plan).ret = "OK"

\* where the box put in is in the file
NewBox(plan) == CHOOSE c \in PlacedIn(plan) : c.name = "new"

\* the tree has a node for the box of size words at start
Recorded(s, start, size) ==
    \E i \in 1..Len(s.nodes) :
        /\ s.nodes[i].type = FreeBox
        /\ s.nodes[i].start = start
        /\ s.nodes[i].size = size

\* the tree has a node for a box at start + size, a sibling of the one at
\* start
SiblingRead(s, start, size) ==
    \E i, j \in 1..Len(s.nodes) :
        /\ s.nodes[i].start = start /\ s.nodes[i].type = FreeBox
        /\ s.nodes[j].start = start + size
        /\ s.nodes[j].parent = s.nodes[i].parent

\* open returned a demux with the tracks and the metadata of the movie
\* without the box
SameOutputs(plan) ==
    /\ pc = "opened"
    /\ ub = {}
    /\ tracks = BaseBuild(plan).tks
    /\ chapters = BaseBuild(plan).chapters
    /\ box.final = BuildMetadata(BaseWalk(plan)).final

-----------------------------------------------------------------------------
(* The claims on the tables and links of an opened demux                     *)

\* the stss table of a track holds 1-based sample numbers in strictly
\* increasing order, none above the sample count of the track
SyncTableValid(tk) ==
    /\ StrictlyIncreasing(tk.syncSampleEntries)
    /\ \A k \in 1..Len(tk.syncSampleEntries) :
         /\ tk.syncSampleEntries[k] >= 1
         /\ tk.syncSampleEntries[k] <= tk.sampleCount

\* C11: every track of an opened file that has a sync sample table has
\* entries that are 1-based, strictly increasing and at most its sample
\* count; an stss box with an entry 0, an entry above the sample count or
\* entries out of order yields no opened track with that table
C11_SyncTableValid ==
    pc = "opened"
    => \A t \in 1..Len(tracks) :
         tracks[t].hasSyncSampleEntries => SyncTableValid(tracks[t])

\* seek goes through track t: it is no chapter track and no metadata track
\* that follows a reference track
Sought(tks, t) ==
    /\ tks[t].type # "CHAPTERS"
    /\ ~(tks[t].type = "METADATA" /\ tks[t].ref # NoTrack)

\* the tracks whose cursor differs between two states of the demux
Moved(before, after) ==
    { t \in 1..Len(before) : after[t].currentSample # before[t].currentSample }

\* nothing but the cursors of the tracks differs
OnlyCursorsDiffer(before, after) ==
    /\ Len(after) = Len(before)
    /\ \A t \in 1..Len(before) :
         [after[t] EXCEPT !.currentSample = before[t].currentSample] = before[t]

\* C12: a call on an open demux leaves the movie and every field of every
\* track as it was, except cursors: next_sample moves only the cursor of the
\* track it addresses, by one or not at all; seek moves only cursors of
\* tracks that are neither chapter tracks nor metadata tracks following a
\* reference track, and the cursor of the metadata track linked to such a
\* track; a query moves nothing
C12_OnlyCursorsChange ==
    [][pc = "opened" =>
         /\ OnlyCursorsDiffer(tracks, tracks')
         /\ fileSize' = fileSize /\ chapters' = chapters /\ mvhd' = mvhd
         /\ last'.op = "next_sample" =>
              /\ Moved(tracks, tracks') \subseteq {FindTrackById(tracks, last'.track_id)}
              /\ \A t \in Moved(tracks, tracks') :
                   tracks'[t].currentSample = tracks[t].currentSample + 1
         /\ last'.op = "seek" =>
              \A t \in Moved(tracks, tracks') :
                   \/ Sought(tracks, t)
                   \/ \E r \in 1..Len(tracks) :
                        Sought(tracks, r) /\ tracks[r].metadata = t
         /\ last'.op \notin {"next_sample", "seek"} => Moved(tracks, tracks') = {}
    ]_vars

\* C12: a seek has moved the cursor of a video track and of the metadata
\* track linked to it, and has left the other fields alone
C12_Witness ==
    /\ pc = "opened" /\ last.op = "seek" /\ last.ret = "OK"
    /\ \E r \in 1..Len(tracks) :
         /\ tracks[r].metadata # NoTrack
         /\ tracks[r].currentSample # last.before[r]
         /\ tracks[tracks[r].metadata].ref = r
         /\ tracks[tracks[r].metadata].currentSample # last.before[tracks[r].metadata]

\* C13: open records at most MP4_CHAPTERS_MAX chapters; for a chapter track
\* with more samples the list is cut there and open still succeeds, and no
\* name or time is stored at an index of MP4_CHAPTERS_MAX or more
C13_ChaptersCapped ==
    pc = "opened"
    => /\ Len(chapters) <= MP4_CHAPTERS_MAX
       /\ "chapters_out_of_bounds" \notin ub

\* the tracks other than t whose tref, as parsed, is of the type and names
\* the id of track t
Referencing(parsed, t, refType) ==
    { r \in (1..Len(parsed)) \ {t} :
        /\ parsed[r].referenceType = refType
        /\ parsed[r].referenceTrackId = parsed[t].id }

\* C14: after open a track has the kind Chapters if and only if its handler
\* declared it Text and another track of the movie refers to its id with a
\* tref of type chap; the chapters link of a track that refers to it then
\* points to it, and no track of another parsed kind has changed its kind
C14_ChaptersKind ==
    (pc = "opened" /\ last.op = "build_tracks")
    => \A t \in 1..Len(tracks) :
         /\ tracks[t].type = "CHAPTERS"
              <=> (last.parsed[t].type = "TEXT"
                   /\ Referencing(last.parsed, t, "chap") # {})
         /\ tracks[t].type = "CHAPTERS"
              => \A r \in Referencing(last.parsed, t, "chap") : tracks[r].chapters = t
         /\ last.parsed[t].type # "TEXT" => tracks[t].type = last.parsed[t].type

\* the track a tref to the id resolves to: the first of the list with the id
Referenced(parsed, r) == FindTrackById(parsed, parsed[r].referenceTrackId)

\* the metadata tracks whose tref is cdsc and resolves to track t
Describing(parsed, t) ==
    { r \in 1..Len(parsed) :
        /\ parsed[r].type = "METADATA"
        /\ parsed[r].referenceType = "cdsc"
        /\ parsed[r].referenceTrackId # 0
        /\ Referenced(parsed, r) = t }

\* C15, as stated: after open, for every track whose tref is of type cdsc
\* the track it refers to has its metadata link equal to that track
C15_CdscLinked ==
    (pc = "opened" /\ last.op = "build_tracks")
    => \A r \in 1..Len(tracks) :
         (last.parsed[r].referenceType = "cdsc" /\ Referenced(last.parsed, r) # NoTrack)
         => tracks[Referenced(last.parsed, r)].metadata = r

\* C15, amended: after open, a track to which metadata tracks refer with a
\* tref of type cdsc has its metadata link equal to the last of them in the
\* track list; a tref of type cdsc of a track of another kind gives no link:
\* a metadata link never points to a track that is not a metadata track
C15_CdscOfMetadataLinked ==
    (pc = "opened" /\ last.op = "build_tracks")
    => \A t \in 1..Len(tracks) :
         /\ Describing(last.parsed, t) # {}
              => /\ tracks[t].metadata \in Describing(last.parsed, t)
                 /\ \A r \in Describing(last.parsed, t) : r <= tracks[t].metadata
         /\ tracks[t].metadata # NoTrack
              => last.parsed[tracks[t].metadata].type = "METADATA"

\* C15: two metadata tracks refer to one video track with cdsc, and the
\* video track is linked to the second
C15_Witness ==
    /\ pc = "opened" /\ last.op = "build_tracks"
    /\ \E t \in 1..Len(tracks) :
         /\ Cardinality(Describing(last.parsed, t)) = 2
         /\ tracks[t].metadata \in Describing(last.parsed, t)

\* C16: a next_sample call on a track with a linked metadata track, whose
\* sample was delivered or not asked for, and with a metadata buffer shorter
\* than the metadata sample at the cursor, returns ENOBUFS as it does for a
\* sample buffer that is too small
C16_MetadataBufferTooSmall ==
    (/\ pc = "opened"
     /\ last.op = "next_sample"
     /\ LastTrack # NoTrack
     /\ last.before[LastTrack] < tracks[LastTrack].sampleCount
     /\ tracks[LastTrack].metadata # NoTrack
     /\ last.before[LastTrack] < tracks[tracks[LastTrack].metadata].sampleCount)
    => LET tk == tracks[LastTrack]
           cur == last.before[LastTrack]
           delivered ==
               \/ ~last.sample_buffer.present
               \/ /\ At(tk.sampleSize, cur) <= last.sample_buffer.size
                  /\ ReadOk(At(tk.sampleOffset, cur), At(tk.sampleSize, cur), fileSize)
       IN  (/\ delivered
            /\ last.metadata_buffer.present
            /\ last.metadata_buffer.size < At(tracks[tk.metadata].sampleSize, cur))
           => last.ret = "ENOBUFS"

\* what made an open fail: the error of the box walk, or of
\* mp4_demux_build_tracks after a walk without error
Cause == IF last.walk # "OK" THEN last.walk ELSE last.build

\* C17: an open that fails reports the error of its cause: EINVAL for a
\* structural violation, EPROTO for sample counts that disagree, ENOMEM for a
\* failed allocation, and EIO for nothing but a failed read or seek
C17_ErrorKind ==
    (last.op = "open" /\ pc = "failed") => err = Cause

\* C19: after close of an opened demux no allocation of open is live: every
\* box tree node, every array of a track (the sync sample table among them),
\* every metadata string and the demux itself has been released exactly once
C19_CloseReleases ==
    (last.op = "close" /\ pc = "closed") => NotReleasedOnce(box.walk) = {}

\* C20: the stsc expansion of open reads no chunk offset at an index of
\* chunk_count or more and touches no sample size or sample offset at an
\* index of sample_count or more, whatever stsc table the file carries; a
\* table that would need such an access makes open fail before the access
C20_ExpansionInBounds ==
    pc # "parsed" => "stsc_out_of_bounds" \notin ub

\* a time since 1904 as a time since 1970, in uint64_t
MacToUnix(time) == (time - MP4_MAC_TO_UNIX_EPOCH_OFFSET) % S64

\* C18: media_info reports as modification_time the modification time of
\* mvhd less the epoch offset, and track_info the modification time of the
\* track's mdhd less the epoch offset, whatever the creation times are
C18_ModificationTime ==
    /\ last.op = "media_info"
         => last.info.modification_time = MacToUnix(mvhd.modificationTime)
    /\ (last.op = "track_info" /\ last.ret = "OK")
         => last.info.modification_time
              = MacToUnix(tracks[last.track_idx + 1].modificationTime)

-----------------------------------------------------------------------------
(* The claims on what the calls and the walk read and divide by *)

\* C21: after any calls of seek and next_sample the cursor of every track is
\* between 0 and the sample count of the track, and no seek has examined
\* sampleDecodingTime at an index of the sample count or more
C21_CursorInRange ==
    /\ pc = "opened"
         => \A t \in 1..Len(tracks) :
              /\ 0 <= tracks[t].currentSample
              /\ tracks[t].currentSample <= tracks[t].sampleCount
    /\ "seek_out_of_bounds" \notin ub

\* C22: next_sample reads the sample size and the sample offset of the
\* linked metadata track at the cursor only when the cursor is below the
\* sample count of the metadata track: no array of a metadata track with
\* fewer samples than the track it describes is read out of range
C22_MetadataInRange ==
    "metadata_out_of_bounds" \notin ub

\* the box of the plan with the size 0 in its header, and whether it is a
\* box of the file itself, not of another box
ZeroBox(plan) == CHOOSE c \in PlacedIn(plan) : c.size = "zero"
ZeroTopLevel(plan) ==
    \/ plan.changed = "new" /\ plan.parent = "root"
    \/ plan.changed = "moov"

\* C23: a box of the file itself with the size 0 in its header, first in
\* the file or behind other boxes, is accepted as reaching to the end of the
\* file (its extent is the file size less its start) and is the last box
\* parsed; a box with the size 0 inside another box makes open fail
C23_ZeroSizedBox ==
    (last.op = "open" /\ box.plan.size = "zero" /\ BaseOpens(box.plan))
    => LET c == ZeroBox(box.plan)
           nodes == box.walk.nodes
       IN  IF ZeroTopLevel(box.plan)
           THEN /\ pc = "opened"
                /\ \E i \in 1..Len(nodes) :
                     /\ nodes[i].parent = 0
                     /\ nodes[i].start = c.start
                     /\ nodes[i].size = Len(box.file) - c.start
                /\ \A j \in 1..Len(nodes) :
                     nodes[j].parent = 0 => nodes[j].start <= c.start
           ELSE pc # "opened"

\* C24: a chapter is recorded for sample i of the chapter track only if
\* 2 + length <= sample_size[i], length being the u16 read at the start of
\* the sample; a sample of less than 2 bytes gives no chapter
C24_ChapterNameInSample ==
    (last.op = "build_tracks" /\ pc = "opened")
    => \A k \in 1..Len(chapters) :
         2 + chapters[k].size <= At(tracks[chapters[k].track].sampleSize, chapters[k].sample)

\* C25: the udta entries written never pass the length of the udta tables
\* allocated from the count of the children of the udta ilst, and none is
\* written when the tables were not allocated; also when one child of the
\* ilst holds more than one data box, and when a data box with a tag sits in
\* an ilst that is not under udta / meta
C25_UdtaEntriesInTables ==
    last.op = "open"
    => /\ "udta_out_of_bounds" \notin ub
       /\ box.walk.udtaMetadataParseIdx <= Len(box.walk.udtaKeys)

\* the types of the boxes that gave a udta key: the key holds the four
\* bytes of the type
UdtaKeyTypes ==
    { box.walk.heap[h].data[1] :
        h \in { k \in 1..Len(box.walk.heap) : box.walk.heap[k].kind = "udtaMetadataKey[]" } }

\* C27: a UTF-8 data box adds a udta entry only when the type of the
\* enclosing box is exactly one of the nine tags, copyright sign included; a
\* type that differs from them in any byte, such as aART, adds none
C27_TagTypeExact ==
    (last.op = "open" /\ pc = "opened")
    => UdtaKeyTypes \subseteq { TagOf(CopyrightSign, t) : t \in TagTypes }

\* the tref of neither track refers to the other
Unreferenced(parsed, a, c) ==
    /\ ~(parsed[a].referenceType # "none" /\ parsed[a].referenceTrackId = parsed[c].id)
    /\ ~(parsed[c].referenceType # "none" /\ parsed[c].referenceTrackId = parsed[a].id)
OfType(parsed, type) == { t \in 1..Len(parsed) : parsed[t].type = type }

\* C26: after open a video track and a metadata track without a tref
\* between them are linked as by cdsc if and only if the movie has exactly
\* one video track, exactly one metadata track and no track of another kind
C26_LinkedWithoutTref ==
    (last.op = "build_tracks" /\ pc = "opened")
    => \A v \in OfType(last.parsed, "VIDEO"), m \in OfType(last.parsed, "METADATA") :
         Unreferenced(last.parsed, v, m)
         => ((tracks[v].metadata = m /\ tracks[m].ref = v)
             <=> /\ Cardinality(OfType(last.parsed, "VIDEO")) = 1
                 /\ Cardinality(OfType(last.parsed, "METADATA")) = 1
                 /\ Len(last.parsed) = 2)

-----------------------------------------------------------------------------
(* The claims on the times reported, on divisions and on termination *)

\* a successful next_sample call on the track of timescale 90000 reports the
\* times of dts for the samples it has times for, and the sample_dts of a
\* call that follows another is the next_sample_dts of that call
DtsReported(dts) ==
    (/\ last'.op = "next_sample" /\ last'.ret = "OK" /\ last'.track_id = 1
     /\ tracks[1].timescale = Video90k.timescale
     /\ last'.before[1] < tracks[1].sampleCount)
    => /\ last'.before[1] < Len(dts)
           => last'.sample.sample_dts = dts[last'.before[1] + 1]
       /\ (/\ last.op = "next_sample" /\ last.ret = "OK" /\ last.track_id = 1
           /\ last.before[1] + 1 = last'.before[1])
           => last'.sample.sample_dts = last.sample.next_sample_dts

\* C28 as stated: for a track of timescale 90000 with samples 3000 ticks
\* apart, successive next_sample calls from sample 0 report the sample_dts
\* 0, 33333, 66666, each the next_sample_dts of the call before
C28_DtsTruncated == [][DtsReported(<< 0, 33333, 66666 >>)]_vars

\* C28 amended: the calls report the sample_dts 0, 33333, 66667, the ticks
\* in microseconds rounded to the nearest, each the next_sample_dts of the
\* call before
C28_DtsRounded == [][DtsReported(<< 0, 33333, 66667 >>)]_vars

\* C28 witness: the third call in a row on the track of timescale 90000
C28_Witness ==
    /\ pc = "opened"
    /\ last.op = "next_sample" /\ last.ret = "OK" /\ last.track_id = 1
    /\ tracks[1].timescale = Video90k.timescale
    /\ last.before[1] = 2
    /\ last.sample.sample_dts = 66667
    /\ last.sample.next_sample_dts = 100000

\* C29: no call divides by zero: media_info and track_info on a movie or a
\* track of timescale 0, next_sample on a track of timescale 0 and seek on a
\* track of duration 0 end with a result or an error without a division by
\* a timescale or a duration of 0
C29_NoDivisionByZero ==
    "division_by_zero" \notin ub

\* the header words read of box i of the walk, and the budget its children
\* are read with: what the declared size leaves behind the header, and
\* behind the version word of a meta box under udta; the budget of the
\* boxes of the file itself is the file size
HeaderRead(i) == IF box.file[box.walk.nodes[i].start + 1] = 1 THEN 4 ELSE 2
Budget(i) ==
    IF i = 0 THEN Len(box.file)
    ELSE LET nd == box.walk.nodes[i] IN
         nd.size - HeaderRead(i)
         - (IF /\ nd.type = MP4_META_BOX
               /\ TypeOf(box.walk, nd.parent) = MP4_USER_DATA_BOX THEN 1 ELSE 0)

\* box i is read as a box of boxes: the cases of the switch of lines
\* 2218-2516 that call mp4_demux_parse_children
ReadAsBoxes(i) ==
    LET nd == box.walk.nodes[i]
        ptype == TypeOf(box.walk, nd.parent)
    IN  \/ nd.type \in Containers \cup {MP4_TRACK_BOX, MP4_ILST_BOX}
        \/ nd.type = MP4_META_BOX /\ ptype \in {MP4_USER_DATA_BOX, MP4_MOVIE_BOX}
        \/ /\ nd.type \notin {MP4_UUID, MP4_SYNC_SAMPLE_BOX, MP4_META_BOX,
                               MP4_DATA_BOX, MP4_KEYS_BOX}
           /\ ptype = MP4_ILST_BOX

\* C30: the box walk of open ends on every file: every box it reads starts
\* behind the header of the box read before it; a walk without an error
\* went on by the declared size of every box, which is the header read or
\* more; and the children of a box are read with a budget strictly smaller
\* than that of the box
C30_WalkProgress ==
    last.op = "open"
    => LET nodes == box.walk.nodes IN
       /\ \A i \in 2..Len(nodes) : nodes[i].start >= nodes[i - 1].start + 2
       /\ last.walk = "OK" => \A i \in 1..Len(nodes) : nodes[i].size >= HeaderRead(i)
       /\ \A i \in 1..Len(nodes) :
            ReadAsBoxes(i) => Budget(i) < Budget(nodes[i].parent)

====
